---- MODULE Spec2Model ----
(***************************************************************************)
(* Signed command bus, single-flight state machine and script gate of the  *)
(* TPM command handler.                                                    *)
(*                                                                         *)
(*   helper/finite_state_machine.py   BaseStateMachine                     *)
(*   helper/script_runner.py          ScriptRunner                         *)
(*   helper/base_messenger.py         BaseMessageHandler                   *)
(*   helper/message.py                MessageFactory, message classes      *)
(*   tpm/tpm_message_handler.py       TPMMessageHandler                    *)
(*                                                                         *)
(* Every delivery is handled by the verified callback on the consume       *)
(* thread; a verified delivery is then processed on a thread of its own    *)
(* (base_messenger.py:166), so the bodies of handle_tpm_command of         *)
(* different deliveries interleave.  A thread is named by its delivery     *)
(* tag.  Digests are symbolic: a digest is the tuple of what was hashed,   *)
(* so two digests are equal exactly when their inputs are.                 *)
(*                                                                         *)
(* tpm_message_handler.py uses MessageFactory, StateChangeMessage and      *)
(* TPMResponseMessage without importing them.  The model resolves the      *)
(* first two to helper/message.py; TPMResponseMessage is defined nowhere   *)
(* in the sources and is taken to be a ResponseMessage (correlation_id,    *)
(* success, result, error).                                                *)
(***************************************************************************)
EXTENDS Integers, Sequences, FiniteSets, TLC

\* ------------------------------------------------------------------ bounds
MaxDeliveries == 2
MaxServiceListeners == 2
MaxConsumeThreads == 2

Tags == 1..MaxDeliveries

\* ------------------------------------------------- finite_state_machine.py
IDLE == "idle"
PROCESSING == "processing"
COMPLETED == "completed"
FAILED == "failed"

State == {IDLE, PROCESSING, COMPLETED, FAILED}

\* A transition table in which COMPLETED leads back to PROCESSING.
transitions_from_completed(s) ==
  CASE s = IDLE -> {PROCESSING}
    [] s = PROCESSING -> {COMPLETED, FAILED}
    [] s = FAILED -> {IDLE}
    [] s = COMPLETED -> {PROCESSING}
    [] OTHER -> {}

\* BaseStateMachine._transitions; COMPLETED has no entry (.get(..., set())).
transitions(s) ==
  CASE s = IDLE -> {PROCESSING}
    [] s = PROCESSING -> {COMPLETED, FAILED}
    [] s = FAILED -> {IDLE}
    [] OTHER -> {}

\* BaseStateMachine.transition: the value returned.
transition_ok(cur, new) == new \in transitions(cur)

\* reset leaving a COMPLETED machine where it is.
reset_unless_completed(current_state) ==
  IF current_state = "completed" THEN current_state ELSE "idle"

\* BaseStateMachine.transition: the state and context it leaves.
transition_state(cur, new) == IF transition_ok(cur, new) THEN new ELSE cur

transition_ctx(cur, new, old_ctx, new_ctx) ==
  IF transition_ok(cur, new) THEN new_ctx ELSE old_ctx

\* current_context: None, or the dict given to the last transition.  The
\* model keeps which thread stored it and for which state.
NoContext == [owner |-> 0, what |-> "none"]

Context(t, what) == [owner |-> t, what |-> what]

\* ----------------------------------------------------------- script files
ScriptNames == {"s1", "s2"}
NoPath == "none"
Paths == {"p1", "p2"}
ScriptPath == "p1"
Contents == {"c0", "c1"}
NoFile == "absent"

\* A file that exists (os.path.isfile is true) but that open() and exec
\* refuse, as one the service has no permission on.
Unreadable == "unreadable"

\* Paths as a caller may write them: absolute, or relative to the working
\* directory.  os.path.abspath gives the absolute form.
RelPaths == {"./p2"}

abspath(path) == IF path = "./p2" THEN "p2" ELSE path

\* hashlib.sha256(file_content).hexdigest()
Sha256(content) == <<"sha256", content>>

NoHash == <<"none", "none">>

\* ScriptRunner._calculate_script_hash: None when the file cannot be read.
calculate_script_hash(fs, path) ==
  IF path = NoPath \/ fs \in {NoFile, Unreadable} THEN NoHash ELSE Sha256(fs)

\* register_script accepting a name that is registered already.
register_ok_overwriting(allowed, fs, name, path) ==
  path # NoPath /\ fs[abspath(path)] # NoFile

\* ScriptRunner.register_script: the value returned.
register_ok(allowed, fs, name, path) ==
  allowed[name] = NoPath /\ path # NoPath /\ fs[abspath(path)] # NoFile

\* ScriptRunner.register_script: allowed_scripts afterwards.
register_allowed(allowed, fs, name, path) ==
  IF register_ok(allowed, fs, name, path)
  THEN [allowed EXCEPT ![name] = abspath(path)]
  ELSE allowed

\* ScriptRunner.register_script: script_hashes afterwards (a hash already
\* supplied for the name is kept, otherwise the file is hashed now).
register_hashes(allowed, hashes, fs, name, path) ==
  IF register_ok(allowed, fs, name, path) /\ hashes[name] = NoHash
  THEN [hashes EXCEPT ![name] =
          calculate_script_hash(fs[abspath(path)], abspath(path))]
  ELSE hashes

\* verify_script_integrity passing a script whose file cannot be read.
verify_unreadable_passes(allowed, hashes, fs, name) ==
  IF allowed[name] = NoPath THEN FALSE
  ELSE IF hashes[name] = NoHash THEN TRUE
  ELSE \/ calculate_script_hash(fs[allowed[name]], allowed[name]) = NoHash
       \/ calculate_script_hash(fs[allowed[name]], allowed[name]) = hashes[name]

\* ScriptRunner.verify_script_integrity
verify_script_integrity(allowed, hashes, fs, name) ==
  IF allowed[name] = NoPath THEN FALSE
  ELSE IF hashes[name] = NoHash THEN TRUE
  ELSE calculate_script_hash(fs[allowed[name]], allowed[name]) = hashes[name]

\* The dict ScriptRunner.execute returns.  A key the dict does not have is
\* NoReturnCode, NoOutput or NoArgs.
NoReturnCode == 0 - 1
NoOutput == "none"
NoArgs == <<"none">>

Result(success, error, returncode) ==
  [success |-> success, error |-> error, returncode |-> returncode,
   output |-> NoOutput, args |-> NoArgs]

NoResult == Result(FALSE, "", NoReturnCode)

\* ScriptRunner.execute, lines 90-97: the two refusals that come before
\* any process is spawned; "spawn" when both checks pass.
execute_gate(allowed, hashes, fs, name) ==
  IF allowed[name] = NoPath THEN "Unauthorized script"
  ELSE IF ~verify_script_integrity(allowed, hashes, fs, name)
       THEN "Script integrity check failed"
       ELSE "spawn"

\* The caller-supplied argument lists.
ArgLists == {<<>>, <<"--force">>}

\* subprocess.run appending the caller's arguments to the command line.
spawn_argv_with_args(script_path, args) == <<script_path>> \o args

\* ScriptRunner.execute, lines 105-106: the command line given to
\* subprocess.run.
spawn_argv(script_path, args) == <<script_path>>

\* ScriptRunner.execute, lines 129-135: any other exception of
\* subprocess.run becomes a failure with its text.
execute_exception(e) == [Result(FALSE, e, NoReturnCode) EXCEPT !.args = <<>>]

\* What the process writes to its pipes: text, or bytes that are not UTF-8.
Outputs == {"text", "bytes"}

\* ScriptRunner.execute, lines 103-135: subprocess.run(text=True,
\* check=True) raises UnicodeDecodeError on output that is not UTF-8,
\* whatever the exit code; otherwise it gives success for exit code 0 and
\* CalledProcessError, with the return code and the output, for any other.
ExitCodes == {0, 1}

execute_result(returncode, output) ==
  IF output = "bytes" THEN execute_exception("UnicodeDecodeError")
  ELSE IF returncode = 0
       THEN [Result(TRUE, "", 0) EXCEPT !.output = output, !.args = <<>>]
       ELSE [Result(FALSE, "CalledProcessError", returncode)
               EXCEPT !.output = output, !.args = <<>>]

\* ------------------------------------------------------------ the envelope
\* The message id the sender put in the body of delivery t.
MsgId(t) == <<"id", t>>

\* message.get("id", "unknown") when the body is no dict or has no id.
UnknownId == <<"unknown", 0>>

\* A body as the broker hands it over: its JSON shape and, for a dict, the
\* fields the handler reads.  command "list" is a JSON list, which is
\* unhashable in Python.
Body(json, message_type, command, id) ==
  [json |-> json, message_type |-> message_type, command |-> command, id |-> id]

Bodies(t) ==
  { Body("dict", "command", c, MsgId(t)) : c \in ScriptNames \cup {"list"} }
  \cup { Body("dict", "none", "s1", MsgId(t)),
         Body("list", "none", "s1", UnknownId),
         Body("malformed", "none", "s1", UnknownId),
         Body("badutf8", "none", "s1", UnknownId) }

\* json.loads(body): what it raises, "" when it returns the decoded value.
\* Bytes that are not UTF-8 raise UnicodeDecodeError, which is a ValueError
\* but no JSONDecodeError.
json_loads(body) ==
  CASE body.json = "malformed" -> "JSONDecodeError"
    [] body.json = "badutf8" -> "UnicodeDecodeError"
    [] OTHER -> ""

\* hmac.new(secret_key, body, sha256).hexdigest()
SecretKey == "secret"
OtherKey == "guess"

HmacSha256(key, body) == <<"hmac", key, body>>

\* properties.headers.get("hmac", ""): a hex string, "" when there is no
\* such header, or a value compare_digest refuses (a string that is not
\* ASCII, or no string at all).
Header(kind, digest) == [kind |-> kind, digest |-> digest]

Headers(body) ==
  { Header("str", HmacSha256(k, body)) : k \in {SecretKey, OtherKey} }
  \cup { Header("empty", HmacSha256(OtherKey, body)),
         Header("nonascii", HmacSha256(OtherKey, body)) }

\* hmac.compare_digest(received_hmac, valid_hmac): "TypeError" when it
\* raises, else "equal" or "differ".
compare_digest(received, valid) ==
  CASE received.kind = "nonascii" -> "TypeError"
    [] received.kind = "empty" -> "differ"
    [] OTHER -> IF received.digest = valid THEN "equal" ELSE "differ"

\* BaseMessageHandler._create_verified_callback.wrapper: what it does with
\* one delivery.  "raise": an exception leaves the wrapper and ends the
\* consume loop with the delivery unsettled; "reject": basic_reject with
\* requeue=False; "thread": _process_message is started on a new thread.
wrapper(key, header, body) ==
  CASE compare_digest(header, HmacSha256(key, body)) = "TypeError" -> "raise"
    [] compare_digest(header, HmacSha256(key, body)) = "differ" -> "reject"
    [] json_loads(body) = "JSONDecodeError" -> "reject"
    [] json_loads(body) # "" -> "raise"
    [] OTHER -> "thread"

\* MessageFactory.create_from_dict followed by the reads of .command, .args
\* and .id (tpm_message_handler.py:44-49): what is raised, "" when the
\* typed message is built.
create_from_dict(message) ==
  CASE message.json # "dict" -> "AttributeError"
    [] message.message_type = "none" -> "ValueError"
    [] message.message_type # "command" -> "AttributeError"
    [] OTHER -> ""

\* cmd_message.args: the bodies of Bodies carry no "args" key, and
\* CommandMessage.args then is the empty list.
message_args(message) == <<>>

\* message.get("id", "unknown") if isinstance(message, dict) else "unknown"
message_id_of(message) ==
  IF message.json = "dict" THEN message.id ELSE UnknownId

\* ----------------------------------------------------------------- publish
\* publish letting the exception of basic_publish through.
publish_propagating(broker_ok) == IF broker_ok THEN "True" ELSE "raise"

\* BaseMessageHandler.publish with a channel: True when basic_publish took
\* the signed message, False when serialising or the broker call raised.
\* It never raises; "raise" is what a caller would see if it did.
publish(broker_ok) == IF broker_ok THEN "True" ELSE "False"

\* The response envelope (ResponseMessage fields) as handed to publish,
\* with the routing key.
Envelope(routing_key, correlation_id, success, error) ==
  [routing_key |-> routing_key, correlation_id |-> correlation_id,
   success |-> success, error |-> error]

\* f"System busy (current state: {current_state.value})"
busy_error(current_state) ==
  <<"System busy", " (current state: ", current_state, ")">>

\* Any other error text, kept whole.
error_text(e) == <<e>>

\* The state validation refusing only while a command is PROCESSING.
is_busy_only_processing(current_state) == current_state = PROCESSING

\* tpm_message_handler.py:53, the state validation.
is_busy(current_state) == current_state # IDLE

\* reset going through the transition table, which leads to IDLE from
\* FAILED alone.
reset_by_transition(current_state) == transition_state(current_state, IDLE)

\* BaseStateMachine.reset: the state it forces.
reset(current_state) == IDLE

\* tpm_message_handler.py:112-117: the state the finally block leaves.
finally_state(current_state) ==
  IF current_state # IDLE THEN reset(current_state) ELSE current_state

\* BaseMessageHandler._process_message: how the delivery is settled once
\* the callback has returned (ack) or raised (nack, requeue=False).
\* _process_message acknowledging whatever the callback did.
process_message_acking(callback_raised) == "ack"

process_message(callback_raised) == IF callback_raised THEN "nack" ELSE "ack"

\* BaseMessageHandler.__init__, lines 38-43: the hosts tried in turn.
Hosts == {"host", "localhost", "rabbitmq"}

NoChannel == "none"

\* _connect_to_rabbitmq: the channel it leaves, given the hosts that accept
\* a connection.
connect_to_rabbitmq(reachable) == IF reachable # {} THEN "open" ELSE NoChannel

\* BaseMessageHandler.subscribe: how the call ends.  Without a channel it
\* raises RuntimeError; an exception of queue_declare, queue_bind or
\* basic_consume is raised again.
subscribe(ch, broker_ok) ==
  IF ch = NoChannel THEN "RuntimeError"
  ELSE IF broker_ok THEN "yes" ELSE "AMQPError"

\* Messages a client publishes; json.dumps raises TypeError on the last.
Unserializable == "object"
Messages == {"m1", Unserializable}
RoutingKeys == {"tpm.result", "tpm.error"}

json_dumps(message) == <<"json", message>>

\* publish reaching basic_publish without a channel.
publish_returns_unguarded(ch, message, broker_ok) ==
  IF ch = NoChannel THEN "raise"
  ELSE IF message = Unserializable THEN "False"
  ELSE publish(broker_ok)

\* BaseMessageHandler.publish, lines 191-221: the value returned.
publish_returns(ch, message, broker_ok) ==
  IF ch = NoChannel THEN "False"
  ELSE IF message = Unserializable THEN "False"
  ELSE publish(broker_ok)

\* BaseMessageHandler.publish, lines 197-215: what basic_publish is given.
Signed(key, routing_key, message) ==
  [routing_key |-> routing_key, body |-> json_dumps(message),
   hmac |-> HmacSha256(key, json_dumps(message))]

\* ------------------------------------------------------------------- state
VARIABLES
  state,            \* BaseStateMachine._state of the handler
  current_context,  \* BaseStateMachine.current_context
  files,            \* content of the file at each path, or NoFile
  allowed_scripts,  \* ScriptRunner.allowed_scripts: name -> path
  script_hashes,    \* ScriptRunner.script_hashes: name -> hex digest
  consuming,        \* BaseMessageHandler._consuming
  pc,               \* where the processing of each delivery stands
  body,             \* body of each delivery
  exc,              \* exception being handled by handle_tpm_command
  raised,           \* an exception is leaving handle_tpm_command
  result,           \* what ScriptRunner.execute returned
  proc,             \* content of the file the spawned process runs
  resp,             \* response envelopes published for each delivery
  settled,          \* basic_ack / basic_reject / basic_nack of each delivery
  args,             \* args of each call of ScriptRunner.execute
  argv,             \* command line of the process each call spawned
  channel,          \* BaseMessageHandler.channel
  subscribed,       \* how the call of subscribe ended
  wire,             \* messages basic_publish handed to the broker
  published,        \* what the last call of publish returned
  registration,     \* the last call of register_script and what it returned
  returned,         \* the last call a client made and what it returned
  active,           \* BaseService.active
  service_listeners,\* BaseService._event_listeners["state_change"]
  services,         \* ServiceRegistry.services, in insertion order
  event_listeners,  \* ServiceRegistry.event_listeners of one event type
  lock,             \* the thread holding ServiceRegistry._lock, 0 when free
  work,             \* the call each client thread is in, with its locals
  consume_threads   \* the threads started with _consume_loop as target

vars == <<state, current_context, files, allowed_scripts, script_hashes,
          consuming, pc, body, exc, raised, result, proc, resp, settled,
          args, argv, channel, subscribed, wire, published, registration,
          returned, active, service_listeners, services, event_listeners,
          lock, work, consume_threads>>

fsm == <<state, current_context>>
runner == <<allowed_scripts, script_hashes>>
call == <<args, argv, registration>>
bus == <<channel, subscribed, wire, published>>
service == <<active, service_listeners>>
registry == <<services, event_listeners, lock, work>>
calls == <<returned, service, registry>>
svc == <<calls, consume_threads>>
handler == <<files, runner, consuming, pc, body, exc, raised, result, proc,
             resp, settled, call, bus, consume_threads>>

NoArgv == <<>>
NoRegistration == [script_name |-> "none", returned |-> FALSE]

NoBody == Body("none", "none", "s1", UnknownId)
NoProc == "none"

\* No client call made, a BaseService and a ServiceRegistry as constructed.
NoCall == [op |-> "none"]
Workers == {1, 2}
NoWork == [op |-> "none", at |-> "idle"]

\* The event types listeners are registered for.  An event type that is
\* not a key of self.event_listeners has the empty list here: emit_event
\* returns 0 for both.
EventTypes == {"e", "f"}

InitSvc ==
  /\ returned = NoCall
  /\ active = FALSE
  /\ service_listeners = <<>>
  /\ services = <<>>
  /\ event_listeners = [event_type \in EventTypes |-> <<>>]
  /\ lock = 0
  /\ work = [w \in Workers |-> NoWork]

\* ScriptRunner({"s1": ScriptPath}) on a file holding "c0", a fresh
\* BaseStateMachine, and a handler that is subscribed and consuming.
InitFiles == [p \in Paths |-> IF p = ScriptPath THEN "c0" ELSE NoFile]
NoScripts == [n \in ScriptNames |-> NoPath]
NoHashes == [n \in ScriptNames |-> NoHash]

Init ==
  /\ state = IDLE
  /\ current_context = NoContext
  /\ files = InitFiles
  /\ allowed_scripts = register_allowed(NoScripts, InitFiles, "s1", ScriptPath)
  /\ script_hashes =
       register_hashes(NoScripts, NoHashes, InitFiles, "s1", ScriptPath)
  /\ consuming = TRUE
  /\ consume_threads = <<"running">>
  /\ pc = [t \in Tags |-> "queued"]
  /\ body = [t \in Tags |-> NoBody]
  /\ exc = [t \in Tags |-> ""]
  /\ raised = [t \in Tags |-> FALSE]
  /\ result = [t \in Tags |-> NoResult]
  /\ proc = [t \in Tags |-> NoProc]
  /\ resp = [t \in Tags |-> <<>>]
  /\ settled = [t \in Tags |-> "none"]
  /\ args = [t \in Tags |-> <<>>]
  /\ argv = [t \in Tags |-> NoArgv]
  /\ channel = "open"
  /\ subscribed = "yes"
  /\ wire = {}
  /\ published = "none"
  /\ registration = NoRegistration
  /\ InitSvc

\* _consume_loop, lines 263-264: the finally block, when start_consuming
\* of the channel has returned or raised.
consume_loop_finally(flag) == FALSE

\* ----------------------------------------------------------------- actions
\* The broker hands delivery t to the verified callback
\* (_create_verified_callback.wrapper) on the consume thread.  No prefetch
\* limit is set on the channel, so it does so whatever is still unsettled.
Deliver(t, b, h) ==
  /\ pc[t] = "queued"
  /\ \A u \in Tags : u < t => pc[u] # "queued"
  /\ \E j \in 1..Len(consume_threads) :
       /\ consume_threads[j] = "running"
       /\ LET w == wrapper(SecretKey, h, b) IN
            /\ pc' = [pc EXCEPT ![t] = CASE w = "thread" -> "parse"
                                         [] w = "reject" -> "done"
                                         [] OTHER -> "unsettled"]
            /\ body' = [body EXCEPT ![t] = IF w = "thread" THEN b ELSE @]
            /\ settled' = [settled EXCEPT ![t] =
                             IF w = "reject" THEN "reject" ELSE @]
            /\ consuming' = IF w = "raise" THEN consume_loop_finally(consuming)
                                           ELSE consuming
            /\ consume_threads' = IF w = "raise"
                                  THEN [consume_threads EXCEPT ![j] = "ended"]
                                  ELSE consume_threads
  /\ UNCHANGED <<fsm, files, runner, exc, raised, result, proc, resp, call, bus,
                 calls>>

\* handle_tpm_command, lines 39-61: build the typed message, then the state
\* validation with the busy refusal.
HandleStart(t, broker_ok) ==
  /\ pc[t] = "parse"
  /\ LET e == create_from_dict(body[t]) IN
       IF e # ""
       THEN /\ exc' = [exc EXCEPT ![t] = e]
            /\ pc' = [pc EXCEPT ![t] = "except"]
            /\ UNCHANGED resp
       ELSE IF is_busy(state)
       THEN IF publish(broker_ok) = "raise"
            THEN /\ exc' = [exc EXCEPT ![t] = "PublishError"]
                 /\ pc' = [pc EXCEPT ![t] = "except"]
                 /\ UNCHANGED resp
            ELSE /\ resp' = [resp EXCEPT ![t] = Append(@,
                      Envelope("tpm.error", body[t].id, FALSE, busy_error(state)))]
                 /\ pc' = [pc EXCEPT ![t] = "finally"]
                 /\ UNCHANGED exc
       ELSE /\ pc' = [pc EXCEPT ![t] = "trans"]
            /\ UNCHANGED <<resp, exc>>
  /\ UNCHANGED <<fsm, files, runner, consuming, body, raised, result, proc,
                 settled, call, bus, svc>>

\* handle_tpm_command, lines 64-65 with BaseStateMachine.transition, line
\* 25: the test of the transition table.  When the transition is refused
\* nothing else is done in the try block.
HandleTransition(t) ==
  /\ pc[t] = "trans"
  /\ pc' = [pc EXCEPT ![t] =
       IF transition_ok(state, PROCESSING) THEN "commit" ELSE "finally"]
  /\ UNCHANGED <<fsm, files, runner, consuming, body, exc, raised, result,
                 proc, resp, settled, call, bus, svc>>

\* BaseStateMachine.transition, lines 26-28, then handle_tpm_command, lines
\* 66-70: the state is set, the change is emitted and ScriptRunner.execute
\* is called.
HandleProcessing(t, broker_ok) ==
  /\ pc[t] = "commit"
  /\ state' = PROCESSING
  /\ current_context' = Context(t, "command")
  /\ IF publish(broker_ok) = "raise"
     THEN /\ exc' = [exc EXCEPT ![t] = "PublishError"]
          /\ pc' = [pc EXCEPT ![t] = "except"]
     ELSE IF body[t].command \notin ScriptNames
     THEN \* `script_name not in self.allowed_scripts` on a list
          /\ exc' = [exc EXCEPT ![t] = "TypeError"]
          /\ pc' = [pc EXCEPT ![t] = "except"]
     ELSE /\ pc' = [pc EXCEPT ![t] = "gate"]
          /\ UNCHANGED exc
  /\ args' = [args EXCEPT ![t] = message_args(body[t])]
  /\ UNCHANGED <<files, runner, consuming, body, raised, result, proc, resp,
                 settled, argv, registration, bus, svc>>

\* ScriptRunner.execute, lines 90-101: the authorisation and integrity
\* checks.  The file is read here, by verify_script_integrity.
ExecuteGate(t) ==
  /\ pc[t] = "gate"
  /\ LET g == execute_gate(allowed_scripts, script_hashes, files,
                           body[t].command) IN
       IF g = "spawn"
       THEN /\ pc' = [pc EXCEPT ![t] = "spawn"]
            /\ UNCHANGED result
       ELSE /\ result' = [result EXCEPT ![t] = Result(FALSE, g, NoReturnCode)]
            /\ pc' = [pc EXCEPT ![t] = "respond"]
  /\ UNCHANGED <<fsm, files, runner, consuming, body, exc, raised, proc, resp,
                 settled, call, bus, svc>>

\* ScriptRunner.execute, line 105: subprocess.run starts the file that is
\* at the registered path now.  A file that is missing or may not be
\* executed is an OSError, which the last except clause of execute turns
\* into a failure result.
ExecuteSpawn(t) ==
  /\ pc[t] = "spawn"
  /\ LET script_path == allowed_scripts[body[t].command]
         content == files[script_path] IN
       IF content \in {NoFile, Unreadable}
       THEN /\ result' = [result EXCEPT ![t] = execute_exception(
                 IF content = NoFile THEN "FileNotFoundError"
                                     ELSE "PermissionError")]
            /\ pc' = [pc EXCEPT ![t] = "respond"]
            /\ UNCHANGED <<proc, argv>>
       ELSE /\ proc' = [proc EXCEPT ![t] = content]
            /\ argv' = [argv EXCEPT ![t] = spawn_argv(script_path, args[t])]
            /\ pc' = [pc EXCEPT ![t] = "running"]
            /\ UNCHANGED result
  /\ UNCHANGED <<fsm, files, runner, consuming, body, exc, raised, resp,
                 settled, args, registration, bus, svc>>

\* The spawned process exits and subprocess.run returns or raises
\* CalledProcessError (no timeout is passed: the wait has no bound).
ExecuteExit(t, returncode, output) ==
  /\ pc[t] = "running"
  /\ result' = [result EXCEPT ![t] = execute_result(returncode, output)]
  /\ pc' = [pc EXCEPT ![t] = "respond"]
  /\ UNCHANGED <<fsm, files, runner, consuming, body, exc, raised, proc, resp,
                 settled, call, bus, svc>>

\* handle_tpm_command, lines 72-91: the transition on the result, its state
\* change event and the response on tpm.result or tpm.error.
HandleResult(t, broker_ok) ==
  /\ pc[t] = "respond"
  /\ LET new_state == IF result[t].success THEN COMPLETED ELSE FAILED IN
       /\ state' = transition_state(state, new_state)
       /\ current_context' =
            transition_ctx(state, new_state, current_context, Context(t, "result"))
  /\ IF publish(broker_ok) = "raise"
     THEN /\ exc' = [exc EXCEPT ![t] = "PublishError"]
          /\ pc' = [pc EXCEPT ![t] = "except"]
          /\ UNCHANGED resp
     ELSE /\ resp' = [resp EXCEPT ![t] = Append(@,
               Envelope(IF result[t].success THEN "tpm.result" ELSE "tpm.error",
                        body[t].id, result[t].success,
                        error_text(result[t].error)))]
          /\ pc' = [pc EXCEPT ![t] = "finally"]
          /\ UNCHANGED exc
  /\ UNCHANGED <<files, runner, consuming, body, raised, result, proc, settled,
                 call, bus, svc>>

\* handle_tpm_command, lines 93-111: the except clause.  An exception
\* raised inside it leaves the handler once the finally block has run.
HandleException(t, broker_ok) ==
  /\ pc[t] = "except"
  /\ state' = transition_state(state, FAILED)
  /\ current_context' =
       transition_ctx(state, FAILED, current_context, Context(t, "error"))
  /\ IF publish(broker_ok) = "raise"
     THEN /\ raised' = [raised EXCEPT ![t] = TRUE]
          /\ UNCHANGED resp
     ELSE /\ resp' = [resp EXCEPT ![t] = Append(@,
               Envelope("tpm.error", message_id_of(body[t]), FALSE,
                        error_text(exc[t])))]
          /\ UNCHANGED raised
  /\ pc' = [pc EXCEPT ![t] = "finally"]
  /\ UNCHANGED <<files, runner, consuming, body, exc, result, proc, settled,
                 call, bus, svc>>

\* handle_tpm_command, lines 112-117: the finally block, after which the
\* call returns or the pending exception leaves it.
HandleFinally(t, broker_ok) ==
  /\ pc[t] = "finally"
  /\ state' = finally_state(state)
  /\ current_context' = IF finally_state(state) # state THEN NoContext
                                                         ELSE current_context
  /\ raised' = [raised EXCEPT ![t] =
       @ \/ (state # IDLE /\ publish(broker_ok) = "raise")]
  /\ pc' = [pc EXCEPT ![t] = "returned"]
  /\ UNCHANGED <<files, runner, consuming, body, exc, result, proc, resp,
                 settled, call, bus, svc>>

\* BaseMessageHandler._process_message, lines 178-182: settle the delivery;
\* the thread ends and its locals are gone.
ProcessMessageSettle(t) ==
  /\ pc[t] = "returned"
  /\ settled' = [settled EXCEPT ![t] = process_message(raised[t])]
  /\ pc' = [pc EXCEPT ![t] = "done"]
  /\ body' = [body EXCEPT ![t] = NoBody]
  /\ exc' = [exc EXCEPT ![t] = ""]
  /\ result' = [result EXCEPT ![t] = NoResult]
  /\ proc' = [proc EXCEPT ![t] = NoProc]
  /\ args' = [args EXCEPT ![t] = <<>>]
  /\ argv' = [argv EXCEPT ![t] = NoArgv]
  /\ UNCHANGED <<fsm, files, runner, consuming, raised, resp, registration, bus, svc>>

\* Another process rewrites or removes the script file.
ModifyFile(content) ==
  /\ files[ScriptPath] # content
  /\ files' = [files EXCEPT ![ScriptPath] = content]
  /\ UNCHANGED <<fsm, runner, consuming, pc, body, exc, raised, result, proc,
                 resp, settled, call, bus, svc>>

Next ==
  \/ \E t \in Tags : \E b \in Bodies(t) : \E h \in Headers(b) : Deliver(t, b, h)
  \/ \E t \in Tags, broker_ok \in BOOLEAN : HandleStart(t, broker_ok)
  \/ \E t \in Tags : HandleTransition(t)
  \/ \E t \in Tags, broker_ok \in BOOLEAN : HandleProcessing(t, broker_ok)
  \/ \E t \in Tags : ExecuteGate(t)
  \/ \E t \in Tags : ExecuteSpawn(t)
  \/ \E t \in Tags, returncode \in ExitCodes, output \in Outputs :
       ExecuteExit(t, returncode, output)
  \/ \E t \in Tags, broker_ok \in BOOLEAN : HandleResult(t, broker_ok)
  \/ \E t \in Tags, broker_ok \in BOOLEAN : HandleException(t, broker_ok)
  \/ \E t \in Tags, broker_ok \in BOOLEAN : HandleFinally(t, broker_ok)
  \/ \E t \in Tags : ProcessMessageSettle(t)
  \/ \E content \in Contents \cup {NoFile} : ModifyFile(content)

Spec == Init /\ [][Next]_vars

\* ------------------------------------------------------ the bus on its own
\* A BaseMessageHandler as any client uses it: constructed with or without
\* a reachable broker, subscribed with a callback that returns or raises,
\* and publishing messages of its own.
InitBus ==
  /\ state = IDLE
  /\ current_context = NoContext
  /\ files = InitFiles
  /\ allowed_scripts = register_allowed(NoScripts, InitFiles, "s1", ScriptPath)
  /\ script_hashes =
       register_hashes(NoScripts, NoHashes, InitFiles, "s1", ScriptPath)
  /\ consuming = FALSE
  /\ consume_threads = <<>>
  /\ pc = [t \in Tags |-> "queued"]
  /\ body = [t \in Tags |-> NoBody]
  /\ exc = [t \in Tags |-> ""]
  /\ raised = [t \in Tags |-> FALSE]
  /\ result = [t \in Tags |-> NoResult]
  /\ proc = [t \in Tags |-> NoProc]
  /\ resp = [t \in Tags |-> <<>>]
  /\ settled = [t \in Tags |-> "none"]
  /\ args = [t \in Tags |-> <<>>]
  /\ argv = [t \in Tags |-> NoArgv]
  /\ channel \in {connect_to_rabbitmq(reachable) : reachable \in SUBSET Hosts}
  /\ subscribed = "no"
  /\ wire = {}
  /\ published = "none"
  /\ registration = NoRegistration
  /\ InitSvc

\* subscribe(routing_key, queue_name, callback), as TPMMessageHandler.__init__
\* calls it right after BaseMessageHandler.__init__.
Subscribe(broker_ok) ==
  /\ subscribed = "no"
  /\ subscribed' = subscribe(channel, broker_ok)
  /\ UNCHANGED <<fsm, files, runner, consuming, pc, body, exc, raised, result,
                 proc, resp, settled, call, channel, wire, published, svc>>

\* start_consuming: refused without a channel or while consuming.
StartConsuming ==
  /\ subscribed = "yes" /\ channel # NoChannel /\ ~consuming
  /\ \A j \in 1..Len(consume_threads) : consume_threads[j] = "ended"
  /\ consuming' = TRUE
  /\ consume_threads' = <<"running">>
  /\ UNCHANGED <<fsm, files, runner, pc, body, exc, raised, result, proc, resp,
                 settled, call, bus, calls>>

\* _process_message, line 177: the subscribed callback returns or raises.
CallbackReturn(t, callback_raises) ==
  /\ pc[t] = "parse"
  /\ raised' = [raised EXCEPT ![t] = callback_raises]
  /\ pc' = [pc EXCEPT ![t] = "returned"]
  /\ UNCHANGED <<fsm, files, runner, consuming, body, exc, result, proc, resp,
                 settled, call, bus, svc>>

\* The subscribed callback, on the thread of delivery t, calls publish and
\* is inside channel.basic_publish (line 207); publish takes no lock.
CallbackPublish(t) ==
  /\ pc[t] = "parse"
  /\ channel # NoChannel
  /\ pc' = [pc EXCEPT ![t] = "publishing"]
  /\ UNCHANGED <<fsm, files, runner, consuming, body, exc, raised, result, proc,
                 resp, settled, call, bus, svc>>

\* basic_publish returns or raises on that thread, publish returns, and
\* the callback returns after it.
CallbackPublished(t, routing_key, message, broker_ok) ==
  /\ pc[t] = "publishing"
  /\ published' = publish_returns(channel, message, broker_ok)
  /\ wire' = IF publish_returns(channel, message, broker_ok) = "True"
             THEN wire \cup {Signed(SecretKey, routing_key, message)}
             ELSE wire
  /\ pc' = [pc EXCEPT ![t] = "returned"]
  /\ UNCHANGED <<fsm, files, runner, consuming, body, exc, raised, result, proc,
                 resp, settled, call, channel, subscribed,
                 svc>>

\* publish(routing_key, message)
Publish(routing_key, message, broker_ok) ==
  /\ published' = publish_returns(channel, message, broker_ok)
  /\ wire' = IF publish_returns(channel, message, broker_ok) = "True"
             THEN wire \cup {Signed(SecretKey, routing_key, message)}
             ELSE wire
  /\ UNCHANGED <<fsm, files, runner, consuming, pc, body, exc, raised, result,
                 proc, resp, settled, call, channel, subscribed,
                 svc>>

NextBus ==
  \/ \E broker_ok \in BOOLEAN : Subscribe(broker_ok)
  \/ StartConsuming
  \/ \E t \in Tags : \E b \in Bodies(t) : \E h \in Headers(b) : Deliver(t, b, h)
  \/ \E t \in Tags, callback_raises \in BOOLEAN : CallbackReturn(t, callback_raises)
  \/ \E t \in Tags : ProcessMessageSettle(t)
  \/ \E t \in Tags : CallbackPublish(t)
  \/ \E t \in Tags, routing_key \in RoutingKeys, message \in Messages,
          broker_ok \in BOOLEAN :
       CallbackPublished(t, routing_key, message, broker_ok)
  \/ \E routing_key \in RoutingKeys, message \in Messages, broker_ok \in BOOLEAN :
       Publish(routing_key, message, broker_ok)

SpecBus == InitBus /\ [][NextBus]_vars

\* ------------------------------------------------ the runner on its own
\* A ScriptRunner as a direct caller uses it (TPMService.execute_command,
\* the tests): constructed with or without expected hashes, more scripts
\* registered later, files rewritten meanwhile, and execute called with any
\* arguments by one caller.
Callers == {1}

RegisterPaths == Paths \cup RelPaths

FileStates == Contents \cup {NoFile, Unreadable}

\* ScriptRunner(script_paths, script_hashes): the hashes the caller gives.
SuppliedHashes ==
  {NoHashes} \cup {[NoHashes EXCEPT !["s1"] = Sha256(c)] : c \in Contents}

RunnerFiles ==
  {[p \in Paths |-> IF p = ScriptPath THEN c ELSE NoFile] :
     c \in {"c0", Unreadable}}

InitRunner ==
  /\ state = IDLE
  /\ current_context = NoContext
  /\ files \in RunnerFiles
  /\ \E supplied \in SuppliedHashes :
       /\ allowed_scripts = register_allowed(NoScripts, files, "s1", ScriptPath)
       /\ script_hashes =
            register_hashes(NoScripts, supplied, files, "s1", ScriptPath)
  /\ consuming = FALSE
  /\ consume_threads = <<>>
  /\ pc = [t \in Tags |-> "queued"]
  /\ body = [t \in Tags |-> NoBody]
  /\ exc = [t \in Tags |-> ""]
  /\ raised = [t \in Tags |-> FALSE]
  /\ result = [t \in Tags |-> NoResult]
  /\ proc = [t \in Tags |-> NoProc]
  /\ resp = [t \in Tags |-> <<>>]
  /\ settled = [t \in Tags |-> "none"]
  /\ args = [t \in Tags |-> <<>>]
  /\ argv = [t \in Tags |-> NoArgv]
  /\ channel = NoChannel
  /\ subscribed = "no"
  /\ wire = {}
  /\ published = "none"
  /\ registration = NoRegistration
  /\ InitSvc

\* register_script(script_name, script_path)
RegisterScript(script_name, script_path) ==
  /\ allowed_scripts' =
       register_allowed(allowed_scripts, files, script_name, script_path)
  /\ script_hashes' =
       register_hashes(allowed_scripts, script_hashes, files, script_name,
                       script_path)
  /\ registration' =
       [script_name |-> script_name,
        returned |-> register_ok(allowed_scripts, files, script_name, script_path)]
  /\ UNCHANGED <<fsm, files, consuming, pc, body, exc, raised, result, proc,
                 resp, settled, args, argv, bus, svc>>

\* Another process rewrites, removes or locks away the file at a path.
WriteFile(path, content) ==
  /\ files[path] # content
  /\ files' = [files EXCEPT ![path] = content]
  /\ UNCHANGED <<fsm, runner, consuming, pc, body, exc, raised, result, proc,
                 resp, settled, call, bus, svc>>

\* execute(script_name, args) is entered; the call is kept in the shape of
\* the command message that names the script.
CallExecute(t, script_name, a) ==
  /\ pc[t] = "queued"
  /\ pc' = [pc EXCEPT ![t] = "gate"]
  /\ body' = [body EXCEPT ![t] = Body("dict", "command", script_name, MsgId(t))]
  /\ args' = [args EXCEPT ![t] = a]
  /\ UNCHANGED <<fsm, files, runner, consuming, exc, raised, result, proc,
                 resp, settled, argv, registration, bus, svc>>

\* execute returns its dict to the caller.
ExecuteReturn(t) ==
  /\ pc[t] = "respond"
  /\ pc' = [pc EXCEPT ![t] = "queued"]
  /\ body' = [body EXCEPT ![t] = NoBody]
  /\ result' = [result EXCEPT ![t] = NoResult]
  /\ proc' = [proc EXCEPT ![t] = NoProc]
  /\ args' = [args EXCEPT ![t] = <<>>]
  /\ argv' = [argv EXCEPT ![t] = NoArgv]
  /\ UNCHANGED <<fsm, files, runner, consuming, exc, raised, resp, settled,
                 registration, bus, svc>>

NextRunner ==
  \/ \E script_name \in ScriptNames, script_path \in RegisterPaths :
       RegisterScript(script_name, script_path)
  \/ \E path \in Paths, content \in FileStates : WriteFile(path, content)
  \/ \E t \in Callers, script_name \in ScriptNames, a \in ArgLists :
       CallExecute(t, script_name, a)
  \/ \E t \in Callers : ExecuteGate(t)
  \/ \E t \in Callers : ExecuteSpawn(t)
  \/ \E t \in Callers, returncode \in ExitCodes, output \in Outputs :
       ExecuteExit(t, returncode, output)
  \/ \E t \in Callers : ExecuteReturn(t)

SpecRunner == InitRunner /\ [][NextRunner]_vars

\* ------------------------------------------- the state machine on its own
\* No bus and no runner call in progress: the rest of the process while a
\* state machine, a service or a registry is used by itself.
InitHandlerIdle ==
  /\ files = InitFiles
  /\ allowed_scripts = register_allowed(NoScripts, InitFiles, "s1", ScriptPath)
  /\ script_hashes =
       register_hashes(NoScripts, NoHashes, InitFiles, "s1", ScriptPath)
  /\ consuming = FALSE
  /\ consume_threads = <<>>
  /\ pc = [t \in Tags |-> "queued"]
  /\ body = [t \in Tags |-> NoBody]
  /\ exc = [t \in Tags |-> ""]
  /\ raised = [t \in Tags |-> FALSE]
  /\ result = [t \in Tags |-> NoResult]
  /\ proc = [t \in Tags |-> NoProc]
  /\ resp = [t \in Tags |-> <<>>]
  /\ settled = [t \in Tags |-> "none"]
  /\ args = [t \in Tags |-> <<>>]
  /\ argv = [t \in Tags |-> NoArgv]
  /\ channel = NoChannel
  /\ subscribed = "no"
  /\ wire = {}
  /\ published = "none"
  /\ registration = NoRegistration

\* The context dicts a caller passes to transition: None, {} and two dicts
\* with entries.
EmptyContext == [owner |-> 0, what |-> "empty"]

Contexts == {NoContext, EmptyContext, Context(1, "a"), Context(1, "b")}

\* `context or {}` (finite_state_machine.py:27)
context_or_empty(context) ==
  IF context \in {NoContext, EmptyContext} THEN EmptyContext ELSE context

\* BaseStateMachine()
InitFsm ==
  /\ state = IDLE
  /\ current_context = NoContext
  /\ InitHandlerIdle
  /\ InitSvc

\* transition(new_state, context)
Transition(new_state, context) ==
  /\ state' = transition_state(state, new_state)
  /\ current_context' = transition_ctx(state, new_state, current_context,
                                       context_or_empty(context))
  /\ returned' = [op |-> "transition", new_state |-> new_state,
                  context |-> context,
                  value |-> transition_ok(state, new_state)]
  /\ UNCHANGED <<handler, service, registry>>

\* reset()
Reset ==
  /\ state' = reset(state)
  /\ current_context' = NoContext
  /\ returned' = [op |-> "reset", new_state |-> IDLE, context |-> NoContext,
                  value |-> TRUE]
  /\ UNCHANGED <<handler, service, registry>>

NextFsm ==
  \/ \E new_state \in State, context \in Contexts : Transition(new_state, context)
  \/ Reset

SpecFsm == InitFsm /\ [][NextFsm]_vars

\* ------------------------------------------------------- service registry
\* ServiceRegistry used by several threads.  self.services is a dict, kept
\* here as the sequence of its items in insertion order.  A service is
\* named by what it offers: neither start nor stop ("none"), start and stop
\* ("sync"), or start_async and stop_async besides ("async").
ServiceNames == {"a", "b"}
Instances == {"none", "sync", "async"}
NoService == "None"

\* Threads that run start_all/stop_all passes; every worker registers.
PassWorkers == {1}

Item(name, service_instance) == [name |-> name, service |-> service_instance]

Reverse(seq) == [j \in 1..Len(seq) |-> seq[Len(seq) + 1 - j]]

has_key(d, name) == \E j \in 1..Len(d) : d[j].name = name

\* dict.get(name): the value stored under name, None without one.
dict_get(d, name) ==
  IF has_key(d, name)
  THEN d[CHOOSE j \in 1..Len(d) : d[j].name = name].service
  ELSE NoService

\* d[name] = value: replaces the value of a key the dict has, and appends
\* a new key at the end.
dict_set(d, name, value) ==
  IF has_key(d, name)
  THEN [j \in 1..Len(d) |-> IF d[j].name = name THEN Item(name, value) ELSE d[j]]
  ELSE Append(d, Item(name, value))

\* with self._lock: entered without taking the lock.
lock_not_taken(owner, w) == owner

\* with self._lock: the owner of the lock inside the block.
lock_acquire(owner, w) == w

\* with self._lock: the owner of the lock after the block.
lock_release(owner, w) == 0

\* A pass that keeps the lock after it has copied the items.
lock_kept(owner, w) == lock_acquire(owner, w)

\* The with block of a pass (lines 203-204, 288-290): the owner of the
\* lock when the loop over the copied items begins.
lock_after_snapshot(owner, w) == lock_release(lock_acquire(owner, w), w)

\* A pass that takes the services in insertion order for stop as well.
snapshot_in_order(svcs, op) == svcs

\* start_all_services, line 204, and stop_all_services, line 290: the list
\* the pass iterates over.
snapshot_of(svcs, op) ==
  IF op \in {"stop_all", "stop_all_async"} THEN Reverse(svcs) ELSE svcs

\* hasattr(service, 'start') and callable(service.start), and the like for
\* stop and for the coroutine functions.
has_operation(service_instance) == service_instance # "none"

\* What a call of start or stop does: returns True, returns False, raises.
Outcomes == {"True", "False", "raise"}

\* A pass that gives up at the first service that raises.
next_index_aborting(i, outcome, n) == IF outcome = "raise" THEN n + 1 ELSE i + 1

\* The for loop goes on to the next service whatever the last one did.
next_index(i, outcome, n) == i + 1

\* results[name] after the call: the service's own result, False when it
\* raised.
call_result(outcome) == outcome = "True"

\* start_all_services_async, lines 251-257 (stop: 338-344): the results of
\* gather are assigned by position in the whole snapshot, to the first
\* len(service_results) services of it.
RECURSIVE collect_results(_, _, _, _)
collect_results(snapshot, service_results, results, i) ==
  IF i > Len(snapshot) \/ service_results = <<>> THEN results
  ELSE collect_results(snapshot, service_results,
         IF i <= Len(service_results)
         THEN dict_set(results, snapshot[i].name, call_result(service_results[i]))
         ELSE results,
         i + 1)

\* ServiceRegistry()
InitRegistry ==
  /\ state = IDLE
  /\ current_context = NoContext
  /\ InitHandlerIdle
  /\ InitSvc

\* register_service, line 42: the lock is taken.
RegisterAcquire(w, name, service_instance) ==
  /\ work[w].at = "idle"
  /\ lock \in {0, w}
  /\ lock' = lock_acquire(lock, w)
  /\ work' = [work EXCEPT ![w] =
       [op |-> "register_service", at |-> "locked", name |-> name,
        service |-> service_instance]]
  /\ UNCHANGED <<fsm, handler, returned, service, services, event_listeners>>

\* register_service, line 43: the test for the name.
RegisterCheck(w) ==
  /\ work[w].at = "locked"
  /\ work' = [work EXCEPT ![w].at =
       IF has_key(services, work[w].name) THEN "refused" ELSE "absent"]
  /\ UNCHANGED <<fsm, handler, returned, service, services, event_listeners,
                 lock>>

\* register_service, lines 44-49: the insertion, or the refusal, and the
\* end of the with block.
RegisterReturn(w) ==
  /\ work[w].at \in {"refused", "absent"}
  /\ services' = IF work[w].at = "absent"
                 THEN dict_set(services, work[w].name, work[w].service)
                 ELSE services
  /\ returned' = [op |-> "register_service", name |-> work[w].name,
                  service |-> work[w].service, value |-> work[w].at = "absent"]
  /\ lock' = lock_release(lock, w)
  /\ work' = [work EXCEPT ![w] = NoWork]
  /\ UNCHANGED <<fsm, handler, service, event_listeners>>

\* start_all_services, lines 202-204, and stop_all_services, lines 287-290:
\* the items are copied under the lock.
PassSnapshot(w, op) ==
  /\ work[w].at = "idle"
  /\ lock \in {0, w}
  /\ lock' = lock_after_snapshot(lock, w)
  /\ work' = [work EXCEPT ![w] =
       [op |-> op, at |-> "iter", snapshot |-> snapshot_of(services, op),
        i |-> 1, results |-> <<>>, visited |-> <<>>]]
  /\ UNCHANGED <<fsm, handler, returned, service, services, event_listeners>>

\* Lines 206-217 (292-303): the next service of the snapshot; its start or
\* stop is entered, or False is recorded for a service that has none.
PassCallBegin(w) ==
  /\ work[w].at = "iter"
  /\ work[w].i <= Len(work[w].snapshot)
  /\ LET item == work[w].snapshot[work[w].i] IN
       IF has_operation(item.service)
       THEN work' = [work EXCEPT ![w].at = "in_call",
                                  ![w].visited = Append(@, item.name)]
       ELSE work' = [work EXCEPT
              ![w].results = dict_set(@, item.name, FALSE),
              ![w].i = next_index(@, "False", Len(work[w].snapshot))]
  /\ UNCHANGED <<fsm, handler, returned, service, services, event_listeners,
                 lock>>

\* The service's start or stop returns or raises (lines 210-214, 296-300).
PassCallEnd(w, outcome) ==
  /\ work[w].at = "in_call"
  /\ LET item == work[w].snapshot[work[w].i] IN
       work' = [work EXCEPT
         ![w].at = "iter",
         ![w].results = dict_set(@, item.name, call_result(outcome)),
         ![w].i = next_index(@, outcome, Len(work[w].snapshot))]
  /\ UNCHANGED <<fsm, handler, returned, service, services, event_listeners,
                 lock>>

\* return results (lines 219, 305)
PassReturn(w) ==
  /\ work[w].at = "iter"
  /\ work[w].i > Len(work[w].snapshot)
  /\ returned' = [op |-> work[w].op, value |-> work[w].results,
                  visited |-> work[w].visited]
  /\ work' = [work EXCEPT ![w] = NoWork]
  /\ UNCHANGED <<fsm, handler, service, services, event_listeners, lock>>

\* start_all_services_async, lines 228-244, and stop_all_services_async,
\* lines 314-331: the snapshot under the lock, then one task for every
\* service that has the operation and False for every one that has not.
AsyncSnapshot(w, op) ==
  /\ work[w].at = "idle"
  /\ lock \in {0, w}
  /\ LET snapshot == snapshot_of(services, op)
         idle == SelectSeq(snapshot, LAMBDA item : ~has_operation(item.service))
     IN work' = [work EXCEPT ![w] =
          [op |-> op, at |-> "gather", snapshot |-> snapshot,
           tasks |-> SelectSeq(snapshot,
                               LAMBDA item : has_operation(item.service)),
           results |-> [j \in 1..Len(idle) |-> Item(idle[j].name, FALSE)],
           service_results |-> <<>>]]
  /\ lock' = lock_after_snapshot(lock, w)
  /\ UNCHANGED <<fsm, handler, returned, service, services, event_listeners>>

\* asyncio.gather(...): the tasks are started in the order of the task
\* list while the earlier ones are suspended in their await (run_in_executor
\* for a sync start or stop, the service's own awaits for an async one).
\* The result of a task that has begun is pending.
AsyncTaskBegin(w) ==
  /\ work[w].at = "gather"
  /\ Len(work[w].service_results) < Len(work[w].tasks)
  /\ work' = [work EXCEPT ![w].service_results = Append(@, "pending")]
  /\ UNCHANGED <<fsm, handler, returned, service, services, event_listeners,
                 lock>>

\* A task that has begun ends: gather(..., return_exceptions=True) keeps
\* its result or its exception at the task's place in the list.
AsyncTaskEnd(w, j, outcome) ==
  /\ work[w].at = "gather"
  /\ j \in 1..Len(work[w].service_results)
  /\ work[w].service_results[j] = "pending"
  /\ work' = [work EXCEPT ![w].service_results[j] = outcome]
  /\ UNCHANGED <<fsm, handler, returned, service, services, event_listeners,
                 lock>>

\* Lines 247-259 (334-346): the results of gather are put into the map,
\* which is returned.
AsyncReturn(w) ==
  /\ work[w].at = "gather"
  /\ Len(work[w].service_results) = Len(work[w].tasks)
  /\ \A j \in 1..Len(work[w].tasks) : work[w].service_results[j] # "pending"
  /\ returned' = [op |-> work[w].op,
                  value |-> collect_results(work[w].snapshot,
                              work[w].service_results, work[w].results, 1),
                  visited |-> <<>>]
  /\ work' = [work EXCEPT ![w] = NoWork]
  /\ UNCHANGED <<fsm, handler, service, services, event_listeners, lock>>

NextRegistry ==
  \/ \E w \in Workers, name \in ServiceNames, service_instance \in Instances :
       RegisterAcquire(w, name, service_instance)
  \/ \E w \in Workers : RegisterCheck(w)
  \/ \E w \in Workers : RegisterReturn(w)
  \/ \E w \in PassWorkers, op \in {"start_all", "stop_all"} : PassSnapshot(w, op)
  \/ \E w \in PassWorkers : PassCallBegin(w)
  \/ \E w \in PassWorkers, outcome \in Outcomes : PassCallEnd(w, outcome)
  \/ \E w \in PassWorkers : PassReturn(w)
  \/ \E w \in PassWorkers, op \in {"start_all_async", "stop_all_async"} :
       AsyncSnapshot(w, op)
  \/ \E w \in PassWorkers : AsyncTaskBegin(w)
  \/ \E w \in PassWorkers, j \in 1..Cardinality(ServiceNames), outcome \in Outcomes :
       AsyncTaskEnd(w, j, outcome)
  \/ \E w \in PassWorkers : AsyncReturn(w)

SpecRegistry == InitRegistry /\ [][NextRegistry]_vars

\* ------------------------------------------------------- registry events
\* A listener is a callable: a coroutine function or a plain one, and one
\* that raises when it is called (or awaited) or one that returns.
Listeners == [is_async : BOOLEAN, throws : BOOLEAN]

\* emit_event, lines 131-158: an async listener is handed to
\* run_coroutine_threadsafe, which returns at once, and is counted; a sync
\* listener is called and counted unless it raises.
emit_event_count(listeners) ==
  Len(SelectSeq(listeners, LAMBDA l : l.is_async \/ ~l.throws))

\* emit_event: the listeners that are run.  The sync ones are called in
\* the loop; the coroutines of the async ones are run by self.loop, in the
\* order in which they were scheduled, if that loop is running at all.
emit_event_invoked(listeners, loop_runs) ==
  SelectSeq(listeners, LAMBDA l : ~l.is_async \/ loop_runs)

\* emit_event_async, lines 176-193: every listener is awaited inside
\* try/except, the sync ones through the executor.
emit_event_async_count(listeners) ==
  Len(SelectSeq(listeners, LAMBDA l : ~l.throws))

\* register_event_listener, lines 94-109
RegisterEventListener(event_type, listener) ==
  /\ lock = 0
  /\ LET known == \E j \in 1..Len(event_listeners[event_type]) :
                    event_listeners[event_type][j] = listener
     IN /\ event_listeners' =
             IF known THEN event_listeners
             ELSE [event_listeners EXCEPT ![event_type] = Append(@, listener)]
        /\ returned' = [op |-> "register_event_listener",
                        event_type |-> event_type, value |-> ~known]
  /\ UNCHANGED <<fsm, handler, service, services, lock, work>>

\* emit_event, lines 116-158
EmitEvent(event_type, loop_runs) ==
  /\ lock = 0
  /\ returned' = [op |-> "emit_event", event_type |-> event_type,
                  value |-> emit_event_count(event_listeners[event_type]),
                  invoked |-> emit_event_invoked(event_listeners[event_type],
                                                 loop_runs)]
  /\ UNCHANGED <<fsm, handler, service, registry>>

\* emit_event_async, lines 160-193
EmitEventAsync(event_type) ==
  /\ lock = 0
  /\ returned' = [op |-> "emit_event_async", event_type |-> event_type,
                  value |-> emit_event_async_count(event_listeners[event_type]),
                  invoked |-> event_listeners[event_type]]
  /\ UNCHANGED <<fsm, handler, service, registry>>

NextEvents ==
  \/ \E event_type \in EventTypes, listener \in Listeners :
       RegisterEventListener(event_type, listener)
  \/ \E event_type \in EventTypes, loop_runs \in BOOLEAN :
       EmitEvent(event_type, loop_runs)
  \/ \E event_type \in EventTypes : EmitEventAsync(event_type)

SpecEvents == InitRegistry /\ [][NextEvents]_vars

\* ------------------------------------------------------------ BaseService
\* One BaseService with its own BaseStateMachine (state, current_context).
\* _start_implementation and _stop_implementation are what a derived class
\* makes of them: they return True, return False, or raise.
ServiceContext(action, what) == Context(0, <<action, what>>)

\* Callbacks given to add_event_listener("state_change", ...): a plain
\* function or a coroutine function.
ServiceListeners == {"sync", "async"}

\* emit_event_sync, lines 254-268: the number of listeners called; the
\* coroutine functions are skipped.
emit_event_sync(listeners) == Len(SelectSeq(listeners, LAMBDA l : l = "sync"))

\* The state machine after start() on an inactive service, or stop() on an
\* active one: transition(PROCESSING), then the implementation, then
\* transition(COMPLETED) for start and transition(IDLE) for stop when it
\* returned True, and transition(FAILED) when it returned False.
lifecycle_state(cur, done, outcome) ==
  IF ~transition_ok(cur, PROCESSING) THEN cur
  ELSE CASE outcome = "True" -> transition_state(PROCESSING, done)
         [] outcome = "False" -> transition_state(PROCESSING, FAILED)
         [] OTHER -> PROCESSING

lifecycle_ctx(cur, old_ctx, action, done, outcome) ==
  IF ~transition_ok(cur, PROCESSING) THEN old_ctx
  ELSE CASE outcome = "True" ->
              transition_ctx(PROCESSING, done, ServiceContext(action, "begun"),
                             ServiceContext(action, "completed"))
         [] outcome = "False" ->
              transition_ctx(PROCESSING, FAILED, ServiceContext(action, "begun"),
                             ServiceContext(action, "error"))
         [] OTHER -> ServiceContext(action, "begun")

\* The value start() and stop() return; "raise" when the implementation
\* raised, which neither of them catches.
start_returns(is_active, cur, outcome) ==
  IF is_active THEN "True"
  ELSE IF transition_ok(cur, PROCESSING) THEN outcome ELSE "False"

stop_returns(is_active, cur, outcome) ==
  IF ~is_active THEN "True"
  ELSE IF transition_ok(cur, PROCESSING)
       THEN (IF outcome = "raise" THEN "raise" ELSE "True")
       ELSE "False"

\* BaseService()
InitService ==
  /\ state = IDLE
  /\ current_context = NoContext
  /\ InitHandlerIdle
  /\ InitSvc

\* BaseService.start, lines 60-86
ServiceStart(outcome) ==
  /\ returned' = [op |-> "start", value |-> start_returns(active, state, outcome),
                  notified |-> IF ~active /\ transition_ok(state, PROCESSING)
                                  /\ outcome # "raise"
                               THEN emit_event_sync(service_listeners) ELSE 0]
  /\ IF active
     THEN UNCHANGED <<fsm, active>>
     ELSE /\ state' = lifecycle_state(state, COMPLETED, outcome)
          /\ current_context' =
               lifecycle_ctx(state, current_context, "start", COMPLETED, outcome)
          /\ active' = (transition_ok(state, PROCESSING) /\ outcome = "True")
  /\ UNCHANGED <<handler, service_listeners, registry>>

\* BaseService.stop, lines 134-160
ServiceStop(outcome) ==
  /\ returned' = [op |-> "stop", value |-> stop_returns(active, state, outcome),
                  notified |-> IF active /\ transition_ok(state, PROCESSING)
                                  /\ outcome # "raise"
                               THEN emit_event_sync(service_listeners) ELSE 0]
  /\ IF ~active
     THEN UNCHANGED <<fsm, active>>
     ELSE /\ state' = lifecycle_state(state, IDLE, outcome)
          /\ current_context' =
               lifecycle_ctx(state, current_context, "stop", IDLE, outcome)
          /\ active' = ~(transition_ok(state, PROCESSING) /\ outcome # "raise")
  /\ UNCHANGED <<handler, service_listeners, registry>>

\* BaseService.reset_state, lines 301-313
ResetState ==
  /\ state' = reset(state)
  /\ current_context' = NoContext
  /\ returned' = [op |-> "reset_state", value |-> "True",
                  notified |-> emit_event_sync(service_listeners)]
  /\ UNCHANGED <<handler, service, registry>>

\* BaseService.add_event_listener, lines 226-241
AddEventListener(callback) ==
  /\ Len(service_listeners) < MaxServiceListeners
  /\ service_listeners' = Append(service_listeners, callback)
  /\ returned' = [op |-> "add_event_listener", value |-> "True", notified |-> 0]
  /\ UNCHANGED <<fsm, handler, active, registry>>

NextService ==
  \/ \E outcome \in Outcomes : ServiceStart(outcome)
  \/ \E outcome \in Outcomes : ServiceStop(outcome)
  \/ ResetState
  \/ \E callback \in ServiceListeners : AddEventListener(callback)

SpecService == InitService /\ [][NextService]_vars

\* ------------------------------------------------------ the two buses
\* One delivery as the threaded bus (BaseMessageHandler) and as the
\* cooperative bus (AsyncRabbitMQConnection) treat it.  A decision says
\* whether the user callback is called with the message and how the
\* delivery is settled ("none": not at all).
Decision(callback, settle) == [callback |-> callback, settle |-> settle]

\* _create_verified_callback.wrapper and _process_message of
\* base_messenger.py.
verified_callback(key, header, b, callback_raises) ==
  CASE wrapper(key, header, b) = "thread" ->
         Decision(TRUE, process_message(callback_raises))
    [] wrapper(key, header, b) = "reject" -> Decision(FALSE, "reject")
    [] OTHER -> Decision(FALSE, "none")

\* AsyncRabbitMQConnection._process_message, lines 212-247.  Everything
\* runs inside `async with message.process()` and inside one try whose
\* except clause only logs, so the context manager is always left without
\* an exception and acknowledges the message.  A body that is no JSON is
\* handed to the callback as it is (lines 223-226).
async_process_message(key, header, b, callback_raises) ==
  CASE header.kind = "empty" -> Decision(FALSE, "ack")
    [] compare_digest(header, HmacSha256(key, b)) # "equal" ->
         Decision(FALSE, "ack")
    [] json_loads(b) \notin {"", "JSONDecodeError"} -> Decision(FALSE, "ack")
    [] OTHER -> Decision(TRUE, "ack")

\* The same delivery, with a callback that behaves the same, given to both
\* buses.
DeliverBoth(t, b, header, callback_raises) ==
  /\ returned = NoCall \/ returned.op = "deliver"
  /\ t = (IF returned = NoCall THEN 1 ELSE Len(returned.log) + 1)
  /\ returned' =
       [op |-> "deliver",
        log |-> Append(IF returned = NoCall THEN <<>> ELSE returned.log,
                  [body |-> b, header |-> header,
                   callback_raises |-> callback_raises,
                   threaded |->
                     verified_callback(SecretKey, header, b, callback_raises),
                   cooperative |->
                     async_process_message(SecretKey, header, b,
                                           callback_raises)])]
  /\ UNCHANGED <<fsm, handler, service, registry>>

NextBuses ==
  \E t \in Tags : \E b \in Bodies(t) : \E header \in Headers(b) :
    \E callback_raises \in BOOLEAN : DeliverBoth(t, b, header, callback_raises)

SpecBuses == InitService /\ [][NextBuses]_vars

\* ------------------------------------------------- consuming, step by step
\* start_consuming(non_blocking=True), _consume_loop and stop_consuming of
\* one BaseMessageHandler, called by client threads, with the deliveries
\* the consume loop makes.  A consume thread is "running" inside
\* channel.start_consuming(), "stopping" once channel.stop_consuming() has
\* cancelled the consumers, "finally" when channel.start_consuming() has
\* returned or raised, and "ended" after the finally block.
Live(threads) ==
  {j \in 1..Len(threads) : threads[j] \in {"running", "stopping", "finally"}}

Starting == {w \in Workers : work[w].at = "thread"}

\* A channel.stop_consuming() that leaves the consumers in place.
cancel_nothing(threads) == threads

\* channel.stop_consuming() (stop_consuming, line 277): the consumers are
\* cancelled, the consume loops get nothing more to deliver and return.
cancel_consumers(threads) ==
  [j \in 1..Len(threads) |->
     IF threads[j] = "running" THEN "stopping" ELSE threads[j]]

\* A handler after TPMMessageHandler.__init__: with a channel and
\* subscribed, or (a bare BaseMessageHandler) without a channel.
InitConsume ==
  /\ state = IDLE
  /\ current_context = NoContext
  /\ files = InitFiles
  /\ allowed_scripts = register_allowed(NoScripts, InitFiles, "s1", ScriptPath)
  /\ script_hashes =
       register_hashes(NoScripts, NoHashes, InitFiles, "s1", ScriptPath)
  /\ consuming = FALSE
  /\ consume_threads = <<>>
  /\ pc = [t \in Tags |-> "queued"]
  /\ body = [t \in Tags |-> NoBody]
  /\ exc = [t \in Tags |-> ""]
  /\ raised = [t \in Tags |-> FALSE]
  /\ result = [t \in Tags |-> NoResult]
  /\ proc = [t \in Tags |-> NoProc]
  /\ resp = [t \in Tags |-> <<>>]
  /\ settled = [t \in Tags |-> "none"]
  /\ args = [t \in Tags |-> <<>>]
  /\ argv = [t \in Tags |-> NoArgv]
  /\ channel \in {connect_to_rabbitmq(reachable) : reachable \in SUBSET Hosts}
  /\ subscribed = (IF channel = NoChannel THEN "no" ELSE "yes")
  /\ wire = {}
  /\ published = "none"
  /\ registration = NoRegistration
  /\ InitSvc

Unchanged_bus_side ==
  UNCHANGED <<fsm, files, runner, pc, body, exc, raised, result, proc, resp,
              settled, call, bus, service, services, event_listeners, lock>>

\* start_consuming, lines 229-235: the two refusals.
StartConsumingCall(w) ==
  /\ work[w].at = "idle"
  /\ Len(consume_threads) + Cardinality(Starting) < MaxConsumeThreads
  /\ IF consuming \/ channel = NoChannel
     THEN /\ returned' = [op |-> "start_consuming", value |-> "False",
                          already |-> consuming]
          /\ UNCHANGED work
     ELSE /\ work' = [work EXCEPT ![w] =
               [op |-> "start_consuming", at |-> "thread"]]
          /\ UNCHANGED returned
  /\ UNCHANGED <<consuming, consume_threads>>
  /\ Unchanged_bus_side

\* start_consuming, lines 239-241: the consume thread is started.
StartConsumingThread(w) ==
  /\ work[w].at = "thread"
  /\ consume_threads' = Append(consume_threads, "running")
  /\ work' = [work EXCEPT ![w].at = "flag"]
  /\ UNCHANGED <<consuming, returned>>
  /\ Unchanged_bus_side

\* start_consuming, lines 242-244
StartConsumingReturn(w) ==
  /\ work[w].at = "flag"
  /\ consuming' = TRUE
  /\ returned' = [op |-> "start_consuming", value |-> "True", already |-> FALSE]
  /\ work' = [work EXCEPT ![w] = NoWork]
  /\ UNCHANGED consume_threads
  /\ Unchanged_bus_side

\* _consume_loop, lines 259-262: channel.start_consuming() returns, the
\* consumers being cancelled, or raises, at any time (a lost connection).
ConsumeLoopEnds(j) ==
  /\ j \in 1..Len(consume_threads)
  /\ consume_threads[j] \in {"running", "stopping"}
  /\ consume_threads' = [consume_threads EXCEPT ![j] = "finally"]
  /\ UNCHANGED <<consuming, returned, work>>
  /\ Unchanged_bus_side

\* _consume_loop, lines 263-264
ConsumeLoopFinally(j) ==
  /\ j \in 1..Len(consume_threads)
  /\ consume_threads[j] = "finally"
  /\ consuming' = consume_loop_finally(consuming)
  /\ consume_threads' = [consume_threads EXCEPT ![j] = "ended"]
  /\ UNCHANGED <<returned, work>>
  /\ Unchanged_bus_side

\* stop_consuming, lines 268-274: nothing to stop, or no channel.
StopConsumingCall(w) ==
  /\ work[w].at = "idle"
  /\ IF ~consuming \/ channel = NoChannel
     THEN /\ returned' = [op |-> "stop_consuming",
                          value |-> IF ~consuming THEN "True" ELSE "False"]
          /\ UNCHANGED work
     ELSE /\ work' = [work EXCEPT ![w] =
               [op |-> "stop_consuming", at |-> "cancel"]]
          /\ UNCHANGED returned
  /\ UNCHANGED <<consuming, consume_threads>>
  /\ Unchanged_bus_side

\* stop_consuming, line 277 with lines 283-285: channel.stop_consuming()
\* cancels the consumers, or raises and False is returned.
StopConsumingCancel(w, broker_ok) ==
  /\ work[w].at = "cancel"
  /\ IF broker_ok
     THEN /\ consume_threads' = cancel_consumers(consume_threads)
          /\ work' = [work EXCEPT ![w].at = "join"]
          /\ UNCHANGED returned
     ELSE /\ returned' = [op |-> "stop_consuming", value |-> "False"]
          /\ work' = [work EXCEPT ![w] = NoWork]
          /\ UNCHANGED consume_threads
  /\ UNCHANGED consuming
  /\ Unchanged_bus_side

\* stop_consuming, lines 278-282: join(timeout=2) has returned, because
\* the consume thread has ended or because two seconds have passed.
StopConsumingReturn(w) ==
  /\ work[w].at = "join"
  /\ consuming' = FALSE
  /\ returned' = [op |-> "stop_consuming", value |-> "True"]
  /\ work' = [work EXCEPT ![w] = NoWork]
  /\ UNCHANGED consume_threads
  /\ Unchanged_bus_side

NextConsume ==
  \/ \E w \in Workers : StartConsumingCall(w)
  \/ \E w \in Workers : StartConsumingThread(w)
  \/ \E w \in Workers : StartConsumingReturn(w)
  \/ \E j \in 1..MaxConsumeThreads : ConsumeLoopEnds(j)
  \/ \E j \in 1..MaxConsumeThreads : ConsumeLoopFinally(j)
  \/ \E w \in Workers : StopConsumingCall(w)
  \/ \E w \in Workers, broker_ok \in BOOLEAN : StopConsumingCancel(w, broker_ok)
  \/ \E w \in Workers : StopConsumingReturn(w)
  \/ \E t \in Tags : \E b \in Bodies(t) : \E h \in Headers(b) : Deliver(t, b, h)
  \/ \E t \in Tags, callback_raises \in BOOLEAN : CallbackReturn(t, callback_raises)
  \/ \E t \in Tags : ProcessMessageSettle(t)

SpecConsume == InitConsume /\ [][NextConsume]_vars

\* ------------------------------------------- a handler that is stopped
\* The TPM handler of Spec, consuming, with client threads that call
\* stop_consuming on it while commands are delivered and processed.
NextStop ==
  \/ \E t \in Tags : \E b \in Bodies(t) : \E h \in Headers(b) : Deliver(t, b, h)
  \/ \E t \in Tags, broker_ok \in BOOLEAN : HandleStart(t, broker_ok)
  \/ \E t \in Tags : HandleTransition(t)
  \/ \E t \in Tags, broker_ok \in BOOLEAN : HandleProcessing(t, broker_ok)
  \/ \E t \in Tags : ExecuteGate(t)
  \/ \E t \in Tags : ExecuteSpawn(t)
  \/ \E t \in Tags, returncode \in ExitCodes, output \in Outputs :
       ExecuteExit(t, returncode, output)
  \/ \E t \in Tags, broker_ok \in BOOLEAN : HandleResult(t, broker_ok)
  \/ \E t \in Tags, broker_ok \in BOOLEAN : HandleException(t, broker_ok)
  \/ \E t \in Tags, broker_ok \in BOOLEAN : HandleFinally(t, broker_ok)
  \/ \E t \in Tags : ProcessMessageSettle(t)
  \/ \E w \in Workers : StopConsumingCall(w)
  \/ \E w \in Workers, broker_ok \in BOOLEAN : StopConsumingCancel(w, broker_ok)
  \/ \E w \in Workers : StopConsumingReturn(w)
  \/ \E j \in 1..MaxConsumeThreads : ConsumeLoopEnds(j)
  \/ \E j \in 1..MaxConsumeThreads : ConsumeLoopFinally(j)

SpecStop == Init /\ [][NextStop]_vars

\* ------------------------------------------------------------- TPMService
\* A TPMService whose _initialize has been awaited: its TPMMessageHandler
\* is connected and subscribed and shares the service's state machine
\* (state_machine=self.state_machine), its ScriptRunner has "s1"
\* registered.  Clients call start, stop, execute_command and
\* execute_command_async on the service, and start_consuming on the
\* handler they get from get_handler().
InitTpm ==
  /\ InitConsume
  /\ channel # NoChannel

\* `await super().start()` and `await super().stop()`: BaseService.start
\* and BaseService.stop are plain functions that return a bool, and a bool
\* cannot be awaited.
await_bool == "TypeError"

\* TPMService.start, lines 65-79, if line 63 lets it get there: the number
\* of calls of start_consuming(non_blocking=True).
start_consuming_calls(is_active, ch) ==
  IF await_bool = "TypeError" \/ is_active \/ ch = NoChannel THEN 0 ELSE 1

\* TPMService.stop, lines 91-103: the number of calls of stop_consuming.
stop_consuming_calls(is_active) ==
  IF await_bool = "TypeError" \/ ~is_active THEN 0 ELSE 1

\* TPMService.start, lines 60-84.  BaseService.start runs first, with the
\* _start_implementation of BaseService, which returns True.
TpmStart ==
  /\ state' = IF active THEN state ELSE lifecycle_state(state, COMPLETED, "True")
  /\ current_context' =
       IF active THEN current_context
       ELSE lifecycle_ctx(state, current_context, "start", COMPLETED, "True")
  /\ active' = (active \/ transition_ok(state, PROCESSING))
  /\ returned' =
       [op |-> "TPMService.start",
        value |-> IF await_bool = "TypeError" THEN "raise"
                  ELSE IF active' THEN "True"
                  ELSE IF channel = NoChannel THEN "False" ELSE "True",
        calls |-> start_consuming_calls(active', channel)]
  /\ UNCHANGED <<handler, service_listeners, registry>>

\* TPMService.stop, lines 86-130.  BaseService.stop runs first, with the
\* _stop_implementation of BaseService; line 89 is outside the try whose
\* finally block clears self.active.
TpmStop ==
  /\ state' = IF ~active THEN state ELSE lifecycle_state(state, IDLE, "True")
  /\ current_context' =
       IF ~active THEN current_context
       ELSE lifecycle_ctx(state, current_context, "stop", IDLE, "True")
  /\ active' = (active /\ ~transition_ok(state, PROCESSING))
  /\ returned' =
       [op |-> "TPMService.stop",
        value |-> IF await_bool = "TypeError" THEN "raise" ELSE "True",
        calls |-> stop_consuming_calls(active')]
  /\ UNCHANGED <<handler, service_listeners, registry>>

\* execute_command(command) and execute_command_async(command) up to the
\* point where ScriptRunner.execute has passed its checks and the script
\* runs.  The async variant calls transition(PROCESSING) first and ignores
\* what it returns (lines 142-146).
DirectExecute(w, is_async, script_name) ==
  /\ work[w].at = "idle"
  /\ state' = IF is_async THEN transition_state(state, PROCESSING) ELSE state
  /\ current_context' =
       IF is_async
       THEN transition_ctx(state, PROCESSING, current_context,
                           ServiceContext("execute_command", "begun"))
       ELSE current_context
  /\ work' = [work EXCEPT ![w] =
       [op |-> IF is_async THEN "execute_command_async" ELSE "execute_command",
        at |-> IF execute_gate(allowed_scripts, script_hashes, files,
                               script_name) = "spawn"
               THEN "running" ELSE "result",
        success |-> FALSE]]
  /\ UNCHANGED <<files, runner, consuming, pc, body, exc, raised, result, proc,
                 resp, settled, call, bus, consume_threads, returned, service,
                 services, event_listeners, lock>>

\* The script of a direct execution exits.
DirectExit(w, returncode, output) ==
  /\ work[w].at = "running"
  /\ work' = [work EXCEPT ![w].at = "result",
                          ![w].success = execute_result(returncode, output).success]
  /\ UNCHANGED <<fsm, files, runner, consuming, pc, body, exc, raised, result,
                 proc, resp, settled, call, bus, consume_threads, returned,
                 service, services, event_listeners, lock>>

\* execute_command returns the result; execute_command_async calls
\* transition(COMPLETED) and, in its finally block, reset() before it
\* returns (lines 155-177).
DirectReturn(w) ==
  /\ work[w].at = "result"
  /\ state' = IF work[w].op = "execute_command_async"
              THEN reset(transition_state(state, COMPLETED)) ELSE state
  /\ current_context' = IF work[w].op = "execute_command_async"
                        THEN NoContext ELSE current_context
  /\ returned' = [op |-> work[w].op, value |-> work[w].success, calls |-> 0]
  /\ work' = [work EXCEPT ![w] = NoWork]
  /\ UNCHANGED <<handler, service, services, event_listeners, lock>>

NextTpm ==
  \/ TpmStart
  \/ TpmStop
  \/ StartConsuming
  \/ \E w \in Callers, is_async \in BOOLEAN, script_name \in ScriptNames :
       DirectExecute(w, is_async, script_name)
  \/ \E w \in Callers, returncode \in ExitCodes, output \in Outputs :
       DirectExit(w, returncode, output)
  \/ \E w \in Callers : DirectReturn(w)
  \/ \E t \in Tags : \E b \in Bodies(t) : \E h \in Headers(b) : Deliver(t, b, h)
  \/ \E t \in Tags, broker_ok \in BOOLEAN : HandleStart(t, broker_ok)
  \/ \E t \in Tags : HandleTransition(t)
  \/ \E t \in Tags, broker_ok \in BOOLEAN : HandleProcessing(t, broker_ok)
  \/ \E t \in Tags : ExecuteGate(t)
  \/ \E t \in Tags : ExecuteSpawn(t)
  \/ \E t \in Tags, returncode \in ExitCodes, output \in Outputs :
       ExecuteExit(t, returncode, output)
  \/ \E t \in Tags, broker_ok \in BOOLEAN : HandleResult(t, broker_ok)
  \/ \E t \in Tags, broker_ok \in BOOLEAN : HandleException(t, broker_ok)
  \/ \E t \in Tags, broker_ok \in BOOLEAN : HandleFinally(t, broker_ok)
  \/ \E t \in Tags : ProcessMessageSettle(t)

SpecTpm == InitTpm /\ [][NextTpm]_vars

\* ------------------------------------------------------------- vocabulary
\* handle_tpm_command has been entered for delivery t and has not returned.
InHandler(t) ==
  pc[t] \in {"parse", "trans", "commit", "gate", "spawn", "running", "respond",
             "except", "finally"}

\* ScriptRunner.execute has been called for delivery t and has not returned.
InExecute(t) == pc[t] \in {"gate", "spawn", "running"}

\* handle_tpm_command has returned (or raised) for delivery t.
Handled(t) == pc[t] \in {"returned", "done"} /\ settled[t] # "reject"

\* Delivery t was answered with the busy refusal.
RefusedBusy(t) ==
  /\ Len(resp[t]) = 1
  /\ resp[t][1].error[1] = "System busy"

\* The step in which thread t leaves control point p.
Leaves(t, p) == pc[t] = p /\ pc'[t] # p

C2_BusyStep ==
  \A t \in Tags :
    (Leaves(t, "parse") /\ create_from_dict(body[t]) = "" /\ state # IDLE)
      => /\ resp'[t] = <<Envelope("tpm.error", MsgId(t), FALSE, busy_error(state))>>
         /\ pc'[t] = "finally"
         /\ UNCHANGED fsm

C2_BusyNeverExecutes ==
  \A t \in Tags :
    RefusedBusy(t)
      => /\ resp[t][1].routing_key = "tpm.error"
         /\ resp[t][1].correlation_id = MsgId(t)
         /\ ~InExecute(t) /\ pc[t] \in {"finally", "returned", "done"}
         /\ proc[t] = NoProc /\ result[t] = NoResult

C4_FinallyLeavesIdle ==
  \A t \in Tags : Leaves(t, "finally") => state' = IDLE

C4_IdleWhenQuiet ==
  (\A t \in Tags : ~InHandler(t)) => (state = IDLE /\ ~is_busy(state))

C5_Invalid(b, h) ==
  \/ h.kind # "str"
  \/ h.digest # HmacSha256(SecretKey, b)
  \/ b.json \in {"malformed", "badutf8"}

C5_InvalidRejected ==
  [][\A t \in Tags : \A b \in Bodies(t) : \A h \in Headers(b) :
       (Deliver(t, b, h) /\ C5_Invalid(b, h))
         => (settled'[t] = "reject" /\ pc'[t] = "done")]_vars

\* C6: the file a process is spawned from has, at the moment of spawning,
\* the SHA-256 stored for the script.
C6_RunsBaseline ==
  \A t \in Tags :
    pc[t] = "running" => Sha256(proc[t]) = script_hashes[body[t].command]

\* C7: execute spawns only a registered script whose integrity check passes
\* at that moment; an unregistered name gives success=false with error
\* "Unauthorized script", a registered script whose current hash differs
\* from the stored one gives success=false with error "Script integrity
\* check failed"; in both cases nothing is spawned, and no step of execute
\* changes allowed_scripts or script_hashes.
C7_GateStep ==
  \A t \in Tags :
    Leaves(t, "gate") =>
      LET name == body[t].command
          registered == allowed_scripts[name] # NoPath
          differs == /\ registered
                     /\ script_hashes[name] # NoHash
                     /\ calculate_script_hash(files[allowed_scripts[name]],
                                              allowed_scripts[name])
                          # script_hashes[name]
      IN /\ pc'[t] = "spawn" => (registered /\ ~differs)
         /\ ~registered =>
              /\ result'[t] = Result(FALSE, "Unauthorized script", NoReturnCode)
              /\ pc'[t] = "respond" /\ proc' = proc
         /\ differs =>
              /\ result'[t] =
                   Result(FALSE, "Script integrity check failed", NoReturnCode)
              /\ pc'[t] = "respond" /\ proc' = proc

C7_ExecuteKeepsRegistry ==
  \A t \in Tags : (InExecute(t) /\ pc'[t] # pc[t]) => UNCHANGED runner

C7_GateRefusals == [][C7_GateStep /\ C7_ExecuteKeepsRegistry]_vars

\* C7 witness: a command for a registered script whose file was changed has
\* just been refused by the integrity check, nothing having been spawned.
C7_Witness ==
  \E t \in Tags :
    /\ pc[t] = "respond" /\ proc[t] = NoProc
    /\ result[t].error = "Script integrity check failed"
    /\ files[ScriptPath] = "c1"

C10_ResultStep ==
  \A t \in Tags :
    /\ Leaves(t, "respond") =>
         /\ state = PROCESSING
         /\ state' = IF result[t].success THEN COMPLETED ELSE FAILED
         /\ resp'[t] =
              <<Envelope(IF result[t].success THEN "tpm.result" ELSE "tpm.error",
                         MsgId(t), result[t].success, error_text(result[t].error))>>
    /\ (Leaves(t, "except") /\ exc[t] = "TypeError") =>
         /\ state = PROCESSING
         /\ state' = FAILED
         /\ resp'[t] = <<Envelope("tpm.error", MsgId(t), FALSE, error_text(exc[t]))>>
    /\ (Leaves(t, "finally") /\ (result[t] # NoResult \/ exc[t] = "TypeError")) =>
         /\ state = IF result[t].success THEN COMPLETED ELSE FAILED
         /\ state' = IDLE

C11_Valid(b, h) ==
  h.kind = "str" /\ h.digest = HmacSha256(SecretKey, b) /\ json_loads(b) = ""

C11_CallbackStep ==
  \A t \in Tags :
    /\ \A b \in Bodies(t) : \A h \in Headers(b) :
         (Deliver(t, b, h) /\ C11_Valid(b, h)) => pc'[t] = "parse"
    /\ (pc'[t] = "parse" /\ pc[t] # "parse") => pc[t] = "queued"
    /\ pc[t] # "queued" => pc'[t] # "queued"
    /\ Leaves(t, "returned") =>
         settled'[t] = IF raised[t] THEN "nack" ELSE "ack"

C11_SettledAfterCallback ==
  \A t \in Tags :
    /\ settled[t] = "ack" => (pc[t] = "done" /\ ~raised[t])
    /\ settled[t] = "nack" => (pc[t] = "done" /\ raised[t])
    /\ pc[t] \in {"parse", "returned"} => settled[t] = "none"

C11_AckAfterCallback == [][C11_CallbackStep]_vars /\ []C11_SettledAfterCallback

\* C11 witness: one delivery was acknowledged after its callback returned
\* and another one negatively acknowledged after its callback raised.
C11_Witness ==
  \E a, b \in Tags :
    /\ settled[a] = "ack" /\ ~raised[a]
    /\ settled[b] = "nack" /\ raised[b]

\* C12: the consumer never holds more than one delivery that has been
\* handed to the verified callback and is not yet acked, rejected or nacked.
C12_OneUnacknowledged ==
  Cardinality({t \in Tags : pc[t] \notin {"queued", "done"}}) <= 1

\* C13: verify_script_integrity(name) is false whenever name is not
\* registered, the file at its path cannot be read, or the file's current
\* SHA-256 differs from the stored hash; and a write that changes the bytes
\* of a registered file that verified before makes it false at once.
C13_Verify(name) ==
  verify_script_integrity(allowed_scripts, script_hashes, files, name)

C13_VerifyRefuses ==
  \A name \in ScriptNames :
    LET script_path == allowed_scripts[name] IN
      /\ script_path = NoPath => ~C13_Verify(name)
      /\ (script_path # NoPath /\ files[script_path] \in {NoFile, Unreadable})
           => ~C13_Verify(name)
      /\ (/\ script_path # NoPath
          /\ script_hashes[name] # NoHash
          /\ calculate_script_hash(files[script_path], script_path)
               # script_hashes[name])
           => ~C13_Verify(name)

C13_ChangeStep ==
  \A name \in ScriptNames : \A path \in Paths : \A content \in FileStates :
    (WriteFile(path, content) /\ allowed_scripts[name] = path /\ C13_Verify(name))
      => ~verify_script_integrity(allowed_scripts', script_hashes', files', name)

C13_VerifyDetectsChange == []C13_VerifyRefuses /\ [][C13_ChangeStep]_vars

\* C14: a script that is registered, by the constructor or by
\* register_script, has a stored hash from then on, and right after a
\* successful register_script verify_script_integrity is true for it.
C14_HashStored ==
  \A name \in ScriptNames :
    allowed_scripts[name] # NoPath => script_hashes[name] # NoHash

C14_RegisterStep ==
  \A name \in ScriptNames : \A path \in RegisterPaths :
    (RegisterScript(name, path) /\ register_ok(allowed_scripts, files, name, path))
      => /\ script_hashes'[name] # NoHash
         /\ verify_script_integrity(allowed_scripts', script_hashes', files', name)

C14_VerifiedOnceRegistered == []C14_HashStored /\ [][C14_RegisterStep]_vars

\* C15: register_script returns False and changes neither table when the
\* name is registered already or the path is no existing file; a successful
\* call stores the absolute form of its path for that name alone; and once
\* a name is registered no step changes its path or its stored hash.
C15_RegisterStep ==
  \A name \in ScriptNames : \A path \in RegisterPaths :
    RegisterScript(name, path) =>
      /\ (allowed_scripts[name] # NoPath \/ files[abspath(path)] = NoFile)
           => /\ registration' = [script_name |-> name, returned |-> FALSE]
              /\ UNCHANGED runner
      /\ registration'.returned =>
           /\ allowed_scripts[name] = NoPath
           /\ allowed_scripts' = [allowed_scripts EXCEPT ![name] = abspath(path)]
           /\ \A other \in ScriptNames \ {name} :
                script_hashes'[other] = script_hashes[other]

C15_FirstStays ==
  \A name \in ScriptNames :
    allowed_scripts[name] # NoPath
      => /\ allowed_scripts'[name] = allowed_scripts[name]
         /\ script_hashes'[name] = script_hashes[name]

C15_FirstRegistrationWins == [][C15_RegisterStep /\ C15_FirstStays]_vars

\* C15 witness: s2 was registered through a relative path and a later
\* register_script for the registered name s1 has just returned False, the
\* path of s1 being the constructor's.
C15_Witness ==
  /\ allowed_scripts["s2"] = "p2"
  /\ allowed_scripts["s1"] = ScriptPath
  /\ registration = [script_name |-> "s1", returned |-> FALSE]

\* C16: while the spawned process has not exited, execute has a step of its
\* own (the kill at the timeout) that ends the wait, so that the call
\* returns whether or not the script ever exits.
C16_ExecuteStep(t) == ExecuteGate(t) \/ ExecuteSpawn(t) \/ ExecuteReturn(t)

C16_TimeoutEndsWait ==
  \A t \in Callers : pc[t] = "running" => ENABLED C16_ExecuteStep(t)

\* C17: when the process of a verified script exits, the result has
\* success = true exactly when the exit code is 0, and for any other exit
\* code it carries that return code and the output of the process.
C17_ExitStep ==
  \A t \in Callers : \A returncode \in ExitCodes : \A output \in Outputs :
    ExecuteExit(t, returncode, output) =>
      /\ result'[t].success = (returncode = 0)
      /\ returncode # 0 => /\ result'[t].returncode = returncode
                           /\ result'[t].output = output

C17_SuccessIsExitZero == [][C17_ExitStep]_vars

C19_PublishStep ==
  \A routing_key \in RoutingKeys : \A message \in Messages :
    \A broker_ok \in BOOLEAN :
      Publish(routing_key, message, broker_ok) =>
        /\ published' \in {"True", "False"}
        /\ (channel = NoChannel \/ message = Unserializable \/ ~broker_ok)
             => (published' = "False" /\ wire' = wire)
        /\ published' = "True" =>
             [routing_key |-> routing_key, body |-> json_dumps(message),
              hmac |-> HmacSha256(SecretKey, json_dumps(message))] \in wire'

C19_WireSigned ==
  /\ published \in {"none", "True", "False"}
  /\ \A m \in wire : m.hmac = HmacSha256(SecretKey, m.body)
  /\ channel = NoChannel => wire = {}

C19_PublishNeverRaises == [][C19_PublishStep]_vars /\ []C19_WireSigned

\* C19 witness: on a connected bus one message has been handed to the
\* broker and a later call of publish has returned False.
C19_Witness ==
  channel # NoChannel /\ wire # {} /\ published = "False"

\* C20: on a bus left without a channel because no host could be connected
\* to, neither subscribe nor publish ends in an exception, so that the
\* constructor of TPMMessageHandler, which subscribes, returns.
C20_DisconnectedReportsFailure ==
  channel = NoChannel =>
    (subscribed \in {"no", "yes"} /\ published \in {"none", "True", "False"})

\* C21: at most one thread is inside basic_publish of the handler's channel
\* at any time.
C21_PublishSerialized ==
  Cardinality({t \in Tags : pc[t] = "publishing"}) <= 1

\* C22: transition(s, ctx) returns true exactly when (current state, s) is
\* IDLE->PROCESSING, PROCESSING->COMPLETED, PROCESSING->FAILED or
\* FAILED->IDLE; then the state is s and the stored context is the one
\* given (an absent or empty one is stored as the empty dict), whatever was
\* stored before; otherwise state and context are unchanged.  COMPLETED is
\* never left by transition and the state is one of the four states.
C22_Table ==
  {<<IDLE, PROCESSING>>, <<PROCESSING, COMPLETED>>, <<PROCESSING, FAILED>>,
   <<FAILED, IDLE>>}

C22_TransitionStep ==
  \A new_state \in State : \A context \in Contexts :
    Transition(new_state, context) =>
      /\ returned'.value = (<<state, new_state>> \in C22_Table)
      /\ returned'.value =>
           /\ state' = new_state
           /\ current_context' =
                IF context = NoContext THEN EmptyContext ELSE context
      /\ ~returned'.value => UNCHANGED fsm
      /\ state = COMPLETED => state' = COMPLETED

C22_TransitionTable == [][C22_TransitionStep]_vars /\ [](state \in State)

\* C22 witness: a machine that reached COMPLETED with a context of its own
\* has just refused a transition to IDLE.
C22_Witness ==
  /\ state = COMPLETED /\ current_context = Context(1, "a")
  /\ returned = [op |-> "transition", new_state |-> IDLE,
                 context |-> Context(1, "b"), value |-> FALSE]

\* C23: reset() in any state leaves the machine IDLE with the context
\* cleared, and a reset that follows a reset changes nothing.
C23_ResetStep ==
  Reset =>
    /\ state' = IDLE /\ current_context' = NoContext
    /\ returned.op = "reset" => UNCHANGED fsm

C23_ResetForcesIdle ==
  [][C23_ResetStep]_vars
    /\ [](returned.op = "reset" => (state = IDLE /\ current_context = NoContext))

\* C23 witness: the machine is IDLE without context right after a reset
\* (the states from which reset is called include COMPLETED, which no
\* transition leaves).
C23_Witness ==
  returned.op = "reset" /\ state = IDLE /\ current_context = NoContext

\* get_service(name)
get_service(name) == dict_get(services, name)

\* ---------------------------------------------------------------- C24
\* C24: a service name, once registered, stays bound to the instance that
\* was registered first.  A register_service call returns True exactly when
\* the name was not registered before it, and then get_service gives the
\* instance it registered; no step of any thread replaces or removes the
\* instance of a registered name, so at most one call returns True per
\* name, whatever the interleaving of the registering threads.
C24_Step ==
  /\ \A name \in ServiceNames :
       has_key(services, name) =>
         /\ has_key(services', name)
         /\ dict_get(services', name) = get_service(name)
  /\ \A w \in Workers :
       RegisterReturn(w) =>
         /\ returned'.value = ~has_key(services, work[w].name)
         /\ returned'.value =>
              dict_get(services', work[w].name) = work[w].service

C24_UniquePermanent == [][C24_Step]_vars

\* A second registration of a name, with another instance, was refused
\* while another thread is inside its own registration, and the first
\* instance is still the one get_service gives.
C24_Witness ==
  /\ returned.op = "register_service"
  /\ returned.value = FALSE
  /\ get_service(returned.name) # NoService
  /\ get_service(returned.name) # returned.service
  /\ \E w \in Workers : work[w].at = "locked" /\ work[w].name = returned.name

\* ---------------------------------------------------------------- C25
\* The names of the services of a list that have the operation, in the
\* order of the list.
C25_Callable(svcs) ==
  LET able == SelectSeq(svcs, LAMBDA item : has_operation(item.service))
  IN [j \in 1..Len(able) |-> able[j].name]

\* The services that were registered when the pass of worker w took its
\* snapshot: the registry only grows, at its end.
C25_Registered(w) == SubSeq(services, 1, Len(work[w].snapshot))

\* What holds of a blocking pass of either direction: every call stores the
\* service's own result, False when it raised; an entry of the map is
\* never changed afterwards; the returned map has exactly one entry for
\* every service that was registered, False for one without the operation.
C25_Isolation(w) ==
  /\ \A outcome \in Outcomes :
       PassCallEnd(w, outcome) =>
         dict_get(work'[w].results, work[w].snapshot[work[w].i].name)
           = (outcome = "True")
  /\ (work[w].at \in {"iter", "in_call"} /\ work'[w].at \in {"iter", "in_call"}) =>
       \A name \in ServiceNames :
         has_key(work[w].results, name) =>
           dict_get(work'[w].results, name) = dict_get(work[w].results, name)
  /\ PassReturn(w) =>
       /\ Len(returned'.value) = Len(C25_Registered(w))
       /\ \A j \in 1..Len(C25_Registered(w)) :
            /\ has_key(returned'.value, C25_Registered(w)[j].name)
            /\ ~has_operation(C25_Registered(w)[j].service) =>
                 dict_get(returned'.value, C25_Registered(w)[j].name) = FALSE

\* C25: start_all_services calls start exactly once on each registered
\* service that has one, in registration order, whatever the services
\* before it returned or raised, and returns a map with one entry for
\* every registered service: False for a service without start or whose
\* start raised, the service's own result otherwise.
C25_Step ==
  \A w \in PassWorkers :
    work[w].at # "idle" /\ work[w].op = "start_all" =>
      /\ C25_Isolation(w)
      /\ PassReturn(w) => returned'.visited = C25_Callable(C25_Registered(w))

C25_StartAll == [][C25_Step]_vars

\* start_all_services has returned for two services: the first one's start
\* failed, the second one was started all the same.
C25_Witness ==
  /\ returned.op = "start_all"
  /\ returned.visited = <<"a", "b">>
  /\ returned.value = <<Item("a", FALSE), Item("b", TRUE)>>

\* ---------------------------------------------------------------- C26
\* C26: stop_all_services visits the services in the reverse of the order
\* in which start_all_services visits them, that is in reverse registration
\* order, with the same isolation: a service without stop or whose stop
\* raised is recorded False, and all the remaining services are stopped.
C26_Step ==
  \A w \in PassWorkers :
    work[w].at # "idle" /\ work[w].op = "stop_all" =>
      /\ C25_Isolation(w)
      /\ PassReturn(w) =>
           returned'.visited = Reverse(C25_Callable(C25_Registered(w)))

C26_StopAllReversed == [][C26_Step]_vars

\* stop_all_services has returned for the services a and b, registered in
\* this order: b was visited first and its stop failed, a was stopped.
C26_Witness ==
  /\ returned.op = "stop_all"
  /\ Len(services) = 2 /\ services[1].name = "a" /\ services[2].name = "b"
  /\ returned.visited = <<"b", "a">>
  /\ returned.value = <<Item("b", FALSE), Item("a", TRUE)>>

\* ---------------------------------------------------------------- C27
\* C27: start_all_services_async and stop_all_services_async report what
\* the blocking passes report: the returned map has one entry for every
\* registered service, and each entry is that service's own outcome, False
\* when it has no such operation or when it raised.
C27_Step ==
  \A w \in PassWorkers :
    AsyncReturn(w) =>
      /\ Len(returned'.value) = Len(work[w].snapshot)
      /\ \A j \in 1..Len(work[w].snapshot) :
           /\ has_key(returned'.value, work[w].snapshot[j].name)
           /\ ~has_operation(work[w].snapshot[j].service) =>
                dict_get(returned'.value, work[w].snapshot[j].name) = FALSE
      /\ \A j \in 1..Len(work[w].tasks) :
           dict_get(returned'.value, work[w].tasks[j].name)
             = (work[w].service_results[j] = "True")

C27_AsyncEquivalent == [][C27_Step]_vars

\* ---------------------------------------------------------------- C28
\* While a service's start or stop is running in a pass, the lock is free
\* for the other threads: one that is about to register can enter
\* register_service, and one that is inside it can go on.
C28_LockFree ==
  \A w \in PassWorkers :
    work[w].at = "in_call" =>
      /\ lock # w
      /\ \A u \in Workers \ {w} :
           /\ work[u].at = "idle" =>
                \A name \in ServiceNames, service_instance \in Instances :
                  ENABLED RegisterAcquire(u, name, service_instance)
           /\ work[u].at = "locked" => ENABLED RegisterCheck(u)
           /\ work[u].at \in {"refused", "absent"} => ENABLED RegisterReturn(u)

\* A service registered after the snapshot of a pass is not visited in
\* that pass and has no entry in the map it returns.
C28_Step ==
  \A w \in PassWorkers :
    PassReturn(w) =>
      \A j \in (Len(work[w].snapshot) + 1)..Len(services) :
        /\ ~has_key(returned'.value, services[j].name)
        /\ \A k \in 1..Len(returned'.visited) :
             returned'.visited[k] # services[j].name

\* C28: start_all_services and stop_all_services hold the registry lock
\* only while they copy the service map: while a service's start or stop
\* is running, a register_service call of another thread completes without
\* waiting for it, and a service registered after the snapshot is neither
\* started nor stopped in that pass.
C28_LockOnlyForSnapshot == []C28_LockFree /\ [][C28_Step]_vars

\* A service's start or stop is still running, and a registration made by
\* another thread after the snapshot has returned True.
C28_Witness ==
  \E w \in PassWorkers :
    /\ work[w].at = "in_call"
    /\ Len(services) > Len(work[w].snapshot)
    /\ returned.op = "register_service"
    /\ returned.value = TRUE
    /\ returned.name = services[Len(services)].name

\* ---------------------------------------------------------------- C29
\* C29: emit_event, blocking or async, invokes every listener registered
\* for the event type exactly once, in registration order, and returns the
\* number of listeners that did not throw, whether they are synchronous or
\* asynchronous; with no listeners it returns 0.
C29_Step ==
  \A event_type \in EventTypes :
    (\/ \E loop_runs \in BOOLEAN : EmitEvent(event_type, loop_runs)
     \/ EmitEventAsync(event_type)) =>
      /\ returned'.invoked = event_listeners[event_type]
      /\ returned'.value =
           Len(SelectSeq(event_listeners[event_type], LAMBDA l : ~l.throws))

C29_EmitCountsDelivered == [][C29_Step]_vars

\* ---------------------------------------------------------------- C30
\* C30: a service built on BaseService follows the start/stop lifecycle in
\* every cycle: start() on an inactive service whose start implementation
\* succeeds returns True and makes the service active, and stop() on an
\* active service whose stop implementation succeeds returns True and
\* makes it inactive.
C30_Step ==
  /\ (ServiceStart("True") /\ ~active) => (returned'.value = "True" /\ active')
  /\ (ServiceStop("True") /\ active) => (returned'.value = "True" /\ ~active')

C30_Lifecycle == [][C30_Step]_vars

\* ---------------------------------------------------------------- C38
\* C38: a failed start can be retried.  When the last call on a BaseService
\* was a start() that returned False because the start implementation
\* failed, a start() whose implementation succeeds returns True and marks
\* the service active, with no reset of the state in between.  (A failed
\* start implementation leaves the state machine in FAILED.)
C38_Step ==
  (/\ returned.op = "start"
   /\ returned.value = "False"
   /\ state = FAILED
   /\ ~active
   /\ ServiceStart("True")) =>
    (returned'.value = "True" /\ active')

C38_RetryAfterFailedStart == [][C38_Step]_vars

\* ---------------------------------------------------------------- C39
\* C39: every delivery handed to the verified callback is settled exactly
\* once.  When the wrapper and the thread it may have started are through
\* with delivery t, one of basic_ack, basic_reject and basic_nack has been
\* issued for it, whatever its signature, its body and the outcome of the
\* callback.
C39_SettledExactlyOnce ==
  \A t \in Tags :
    pc[t] \in {"done", "unsettled"} => settled[t] \in {"ack", "reject", "nack"}

\* ---------------------------------------------------------------- C36
\* C36: the threaded bus and the cooperative bus make the same decision
\* for the same delivery.  The message reaches the user callback in one
\* exactly when it does in the other, namely when its signature verifies
\* and its body is well-formed, and a message withheld from the callback
\* is rejected, not acknowledged, in both.
C36_SameDecision ==
  returned # NoCall /\ returned.op = "deliver" =>
    \A j \in 1..Len(returned.log) :
      LET d == returned.log[j]
          verified == d.header.kind = "str"
                        /\ d.header.digest = HmacSha256(SecretKey, d.body)
          well_formed == d.body.json \notin {"malformed", "badutf8"}
      IN /\ d.threaded.callback = d.cooperative.callback
         /\ d.threaded.callback = (verified /\ well_formed)
         /\ ~d.threaded.callback => d.threaded.settle = "reject"
         /\ ~d.cooperative.callback => d.cooperative.settle = "reject"

\* ---------------------------------------------------------------- C37
\* C37: stop_all_services_async keeps dependents before dependencies: the
\* stop of a service does not begin before the stop of every service
\* registered after it has finished.  The tasks are in reverse
\* registration order, so no task has begun while a task before it is
\* still running.
C37_StopsInSequence ==
  \A w \in PassWorkers :
    work[w].at = "gather" /\ work[w].op = "stop_all_async" =>
      \A j \in 1..Len(work[w].service_results) :
        \A k \in 1..(j - 1) : work[w].service_results[k] # "pending"

\* ---------------------------------------------------------------- C40
\* C40: the _consuming flag matches the consume loop.  Whenever no call of
\* start_consuming or stop_consuming is in progress, the flag is true only
\* if a consume thread is alive, and at most one consume thread is alive:
\* so start_consuming is never refused as already consuming while no loop
\* is running.
C40_FlagMatchesLoop ==
  (\A w \in Workers : work[w].at = "idle") =>
    /\ consuming => Live(consume_threads) # {}
    /\ Cardinality(Live(consume_threads)) <= 1

\* ---------------------------------------------------------------- C32
\* A call of stop_consuming by thread w returns in this step.
C32_Returns(w) ==
  \/ StopConsumingReturn(w)
  \/ StopConsumingCall(w) /\ work'[w].at = "idle"
  \/ StopConsumingCancel(w, FALSE)

\* C32: stop_consuming halts delivery and is idempotent.  When a call of
\* it returns the bus is not consuming, and no consume thread delivers
\* once the consumers have been cancelled; a call on a bus that is not
\* consuming (stopped before, or never started) returns True and changes
\* nothing.
C32_Step ==
  \A w \in Workers :
    /\ C32_Returns(w) => ~consuming'
    /\ StopConsumingCancel(w, TRUE) =>
         \A j \in 1..Len(consume_threads') : consume_threads'[j] # "running"
    /\ (StopConsumingCall(w) /\ ~consuming) =>
         /\ returned'.value = "True"
         /\ UNCHANGED <<consuming, consume_threads, bus, pc, settled>>

C32_StopConsumingIdempotent == [][C32_Step]_vars

\* ---------------------------------------------------------------- C33
\* The next step of the processing of delivery t, on its own thread.
C33_Proceeds(t) ==
  \/ \E broker_ok \in BOOLEAN :
       \/ HandleStart(t, broker_ok)
       \/ HandleProcessing(t, broker_ok)
       \/ HandleResult(t, broker_ok)
       \/ HandleException(t, broker_ok)
       \/ HandleFinally(t, broker_ok)
  \/ HandleTransition(t)
  \/ ExecuteGate(t)
  \/ ExecuteSpawn(t)
  \/ \E returncode \in ExitCodes, output \in Outputs :
       ExecuteExit(t, returncode, output)
  \/ ProcessMessageSettle(t)

C33_Delivery(t) == \E b \in Bodies(t) : \E h \in Headers(b) : Deliver(t, b, h)

\* A call of stop_consuming is past channel.stop_consuming(), or the last
\* call a client made was a stop_consuming that returned True.
C33_Stopped ==
  \/ \E w \in Workers : work[w].at = "join"
  \/ /\ returned # NoCall
     /\ returned.op = "stop_consuming"
     /\ returned.value = "True"

\* A step of stop_consuming or of the consume loop it ends.
C33_StopStep ==
  \/ \E w \in Workers :
       \/ StopConsumingCall(w)
       \/ StopConsumingReturn(w)
       \/ \E broker_ok \in BOOLEAN : StopConsumingCancel(w, broker_ok)
  \/ \E j \in 1..MaxConsumeThreads : ConsumeLoopEnds(j) \/ ConsumeLoopFinally(j)

C33_InFlight ==
  \A t \in Tags :
    /\ (C33_Stopped /\ pc[t] = "queued") => ~ENABLED C33_Delivery(t)
    /\ pc[t] \notin {"queued", "done", "unsettled"} => ENABLED C33_Proceeds(t)

C33_Step ==
  /\ C33_StopStep =>
       UNCHANGED <<fsm, pc, body, exc, raised, result, proc, resp, settled,
                   args, argv, channel>>
  /\ \A t \in Tags, broker_ok \in BOOLEAN :
       /\ HandleResult(t, broker_ok) => Len(resp'[t]) = Len(resp[t]) + 1
       /\ HandleFinally(t, broker_ok) => state' = IDLE

C31_Step ==
  /\ (TpmStart /\ ~active /\ channel # NoChannel) =>
       (returned'.calls = 1 /\ active')
  /\ (TpmStart /\ active) => (returned'.value = "True" /\ returned'.calls = 0)
  /\ (TpmStop /\ active) => (returned'.calls = 1 /\ ~active')
  /\ (TpmStop /\ ~active) => (returned'.value = "True" /\ returned'.calls = 0)

C31_ConsumptionFollowsActive == [][C31_Step]_vars

\* ---------------------------------------------------------------- C34
\* C34: the handler of a TPMService answers "System busy" only while
\* another command is being processed by that handler, and its state
\* machine is changed by nothing but the handler's own command processing:
\* whenever no command is in flight the next command is accepted, before
\* and after the service is started or stopped.
C34_BusyAnswer(t) ==
  /\ \E broker_ok \in BOOLEAN : HandleStart(t, broker_ok)
  /\ create_from_dict(body[t]) = ""
  /\ is_busy(state)

C34_BusyOnlyInFlight ==
  \A t \in Tags :
    C34_BusyAnswer(t) => \E u \in Tags \ {t} : InHandler(u) /\ pc[u] # "parse"

C34_OwnStateMachine == state' # state => pc' # pc

C34_Step == C34_BusyOnlyInFlight /\ C34_OwnStateMachine

C34_BusyOnlyWhileProcessing == [][C34_Step]_vars

\* ---------------------------------------------------------------- C35
\* C35: direct execution through TPMService respects single-flight.
\* execute_command and execute_command_async never run a script while the
\* handler is processing a bus command, a bus command is never executed
\* while a direct execution is in progress, and a direct execution that
\* ends never resets the state machine under a bus command that is still
\* running.
C35_DirectRunning == \E w \in Callers : work[w].at = "running"

C35_BusRunning == \E t \in Tags : pc[t] = "running"

C35_OneScript == ~(C35_DirectRunning /\ C35_BusRunning)

C35_Step ==
  \A w \in Callers :
    (DirectReturn(w) /\ \E t \in Tags : InExecute(t)) => state' = state

====
